---- MODULE Spec2Model ----
(***************************************************************************)
(* The trend-scoring aggregator of the movie / TV review pipeline:         *)
(*   src/src/movie_trend_analyst.py  (class TrendAnalyst)                  *)
(*   src/src/tv_trend_analyst.py     (class TVTrendAnalyst)                *)
(* One aggregation call is a sequence of steps: each source scraper is     *)
(* invoked in the fixed order of the code and its return value is merged   *)
(* into the Counter buzz_scores; the last step ranks, filters and returns. *)
(* Python strings are TLA+ strings; a Counter / dict is the sequence of    *)
(* its items in insertion order.                                           *)
(***************************************************************************)
EXTENDS Integers, Sequences, FiniteSets, TLC

VARIABLES
    pc,           \* position inside analyze_trending_movies / _shows
    domain,       \* "movie" (TrendAnalyst) or "tv" (TVTrendAnalyst)
    top_n,        \* the argument top_n of the running call
    env,          \* what each source answers in this call (or its stub)
    ret,          \* the locals google_movies, reddit_movies, ... once assigned
    buzz_scores,  \* the local Counter buzz_scores, in insertion order
    result,       \* the returned list
    hashSeed,     \* the process's string-hash seed: decides list(set(...)) order
    invoked,      \* the scraper methods the running call has invoked, in order
    step,         \* position inside run_movie_review_pipeline
    stage,        \* the pipeline stage that is running: "movie" or "tv"
    trending,     \* trending_movies / trending_shows: the ranked titles
    alt,          \* the index in `trending` of the alternative being tried
    movie,        \* the local movie (tv in the TV stage), None until chosen
    details,      \* the local details (tv_details), None until fetched
    calls,        \* the resolve / detail / fallback calls of the stage so far
    outcome,      \* how each stage ended
    entry,        \* the entry point that runs: pipeline, cli or web
    store,        \* the content of last_draft.json
    review,       \* the local review (tv_review): what the generator returned
    submitted,        \* the calls of publish_to_hashnode made by the run
    decision,     \* what the operator typed at the approval prompt
    prompts,      \* the video prompts appended to prompts.xlsx by the run
    present,      \* the draft ids for which draft_exists answers True
    hn_pc,        \* position inside publish_to_hashnode
    credentials,  \* HN_PUBLICATION_ID and HN_ACCESS_TOKEN are both set
    publish,      \* the argument publish of the running call
    field,        \* the index in candidate_fields of the field being tried
    sent,         \* the requests posted by the running call, with their answers
    draft_id,     \* the local draft_id
    returned,     \* the dict the call returned
    gen,          \* the running review generator: its function, its setup
    gr_pc,        \* position inside generate_review / generate_show_review
    models,       \* the local list models
    tried,        \* the completion requests made, with what each came to
    generated,    \* the string the generator returned
    last,         \* the previous call of the same inputs (observer)
    raw_text,     \* the argument of a direct call of the filter / an extractor
    answer        \* what that call returned

vars == <<pc, domain, top_n, env, ret, buzz_scores, result, hashSeed, last,
          invoked, step, stage, trending, alt, movie, details, calls, outcome,
          entry, store, review, submitted, decision, prompts, present,
          hn_pc, credentials, publish, field, sent, draft_id, returned,
          gen, gr_pc, models, tried, generated, raw_text, answer>>

\* the state of run_movie_review_pipeline
pipelineVars == <<step, stage, trending, alt, movie, details, calls, outcome,
                  entry, store, review, submitted, decision, prompts, present>>

\* the review, the drafts and what the run leaves behind
draftVars == <<entry, store, review, submitted, decision, prompts, present>>

\* the state of publish_to_hashnode
hashnodeVars == <<hn_pc, credentials, publish, field, sent, draft_id, returned>>

\* the state of generate_review / generate_show_review
reviewVars == <<gen, gr_pc, models, tried, generated>>

\* the state outside the aggregation call
outsideAggregator == <<raw_text, answer, pipelineVars, hashnodeVars, reviewVars>>

(***************************************************************************)
(* Bounds of the model.                                                    *)
(***************************************************************************)
MaxTopN == 2

\* the longest ranked list the aggregator hands to the pipeline
MaxTrending == 4

(***************************************************************************)
(* Python string helpers.                                                  *)
(***************************************************************************)
UpperSeq == "ABCDEFGHIJKLMNOPQRSTUVWXYZ"
LowerSeq == "abcdefghijklmnopqrstuvwxyz"
DigitSeq == "0123456789"

Char(s, i) == SubSeq(s, i, i)

CharsOf(s) == {Char(s, i) : i \in 1..Len(s)}

UpperChars == CharsOf(UpperSeq)
DigitChars == CharsOf(DigitSeq)
Whitespace == {" ", "\t", "\n"}

lowerMap ==
    [c \in UpperChars |->
        LET i == CHOOSE k \in 1..Len(UpperSeq) : Char(UpperSeq, k) = c
        IN  Char(LowerSeq, i)]

\* str.lower()
RECURSIVE Lower(_)
Lower(s) ==
    IF s = "" THEN ""
    ELSE (IF Head(s) \in UpperChars THEN lowerMap[Head(s)] ELSE Head(s))
         \o Lower(Tail(s))

\* sub in s
Contains(sub, s) ==
    \E i \in 1..(Len(s) - Len(sub) + 1) : SubSeq(s, i, i + Len(sub) - 1) = sub

\* str.split() with no argument: the maximal runs of non-whitespace
RECURSIVE SplitFrom(_, _, _)
SplitFrom(s, i, cur) ==
    IF i > Len(s) THEN (IF cur = "" THEN <<>> ELSE <<cur>>)
    ELSE IF Char(s, i) \in Whitespace
         THEN (IF cur = "" THEN <<>> ELSE <<cur>>) \o SplitFrom(s, i + 1, "")
         ELSE SplitFrom(s, i + 1, cur \o Char(s, i))

Split(s) == SplitFrom(s, 1, "")

\* str.strip()
RECURSIVE LStrip(_)
LStrip(s) == IF s # "" /\ Head(s) \in Whitespace THEN LStrip(Tail(s)) ELSE s

RECURSIVE RStrip(_)
RStrip(s) ==
    IF s # "" /\ Char(s, Len(s)) \in Whitespace
    THEN RStrip(SubSeq(s, 1, Len(s) - 1)) ELSE s

Strip(s) == RStrip(LStrip(s))

\* str.isdigit()
IsDigit(s) == s # "" /\ \A i \in 1..Len(s) : Char(s, i) \in DigitChars

Min(a, b) == IF a < b THEN a ELSE b

\* l[:k]
Prefix(l, k) == SubSeq(l, 1, Min(k, Len(l)))

(***************************************************************************)
(* Candidate Filter.                                                       *)
(***************************************************************************)
MovieExclude ==
    {"cakeday", "megathread", "discussion", "official", "trailer",
     "review", "question", "help", "where", "how", "what", "why",
     "reddit", "post", "thread", "ama", "announcement"}

\* TvExclude keeping "official" and "trailer" of the movie list
TvExcludeOfficialTrailer ==
    {"cakeday", "megathread", "official", "trailer", "help", "where", "how",
     "what", "why", "reddit", "post", "thread", "ama", "announcement",
     "trailer only"}

TvExclude ==
    {"cakeday", "megathread", "help", "where", "how", "what", "why",
     "reddit", "post", "thread", "ama", "announcement", "trailer only"}

MovieRejectStarts ==
    {"how", "what", "where", "why", "when", "is", "are", "do", "does"}

TvRejectStarts ==
    {"how", "what", "where", "why", "when", "is", "are", "do", "does", "can"}

\* sum(1 for word in title.split() if word and word[0].isupper())
CapitalizedWords(title) ==
    LET words == Split(title)
    IN  Cardinality({i \in 1..Len(words) : Head(words[i]) \in UpperChars})

\* IsLikelyMovie with the title-case test asking for one capitalized word
IsLikelyMovieOneWord(title) ==
    IF title = "" \/ Len(title) < 3 THEN FALSE
    ELSE IF \E keyword \in MovieExclude : Contains(keyword, Lower(title)) THEN FALSE
    ELSE IF Len(Split(title)) > 8 THEN FALSE
    ELSE IF CapitalizedWords(title) < 1 THEN FALSE
    ELSE IF Lower(Split(title)[1]) \in MovieRejectStarts THEN FALSE
    ELSE TRUE

IsLikelyMovie(title) ==
    IF title = "" \/ Len(title) < 3 THEN FALSE
    ELSE IF \E keyword \in MovieExclude : Contains(keyword, Lower(title)) THEN FALSE
    ELSE IF Len(Split(title)) > 8 THEN FALSE
    ELSE IF CapitalizedWords(title) < 2 THEN FALSE
    ELSE IF Lower(Split(title)[1]) \in MovieRejectStarts THEN FALSE
    ELSE TRUE

\* IsLikelyTvShow with the reject-list of the movie filter
IsLikelyTvShowMovieStarts(title) ==
    IF title = "" \/ Len(title) < 3 THEN FALSE
    ELSE IF \E keyword \in TvExclude : Contains(keyword, Lower(title)) THEN FALSE
    ELSE IF Len(Split(title)) > 10 THEN FALSE
    ELSE IF CapitalizedWords(title) < 2 THEN FALSE
    ELSE IF Lower(Split(title)[1]) \in MovieRejectStarts THEN FALSE
    ELSE TRUE

IsLikelyTvShow(title) ==
    IF title = "" \/ Len(title) < 3 THEN FALSE
    ELSE IF \E keyword \in TvExclude : Contains(keyword, Lower(title)) THEN FALSE
    ELSE IF Len(Split(title)) > 10 THEN FALSE
    ELSE IF CapitalizedWords(title) < 2 THEN FALSE
    ELSE IF Lower(Split(title)[1]) \in TvRejectStarts THEN FALSE
    ELSE TRUE

(***************************************************************************)
(* Regular expressions of the Title Extractor.  re.search returns the      *)
(* leftmost match; at that start a greedy quantifier takes the longest     *)
(* repetition for which the rest of the pattern still matches.  A match    *)
(* result is <<group(1).strip()>>, no match (None) is <<>>.  The en dash   *)
(* U+2013 of the patterns is written "~" in the model's strings.           *)
(***************************************************************************)
LowerChars == CharsOf(LowerSeq)
Letters    == UpperChars \cup LowerChars
Quotes     == {"\"", "'"}
TitleChars == Letters \cup Whitespace \cup {"'", ":", "&", "-"}   \* [A-Za-z\s\':&-]
WordChars  == Letters \cup DigitChars \cup {"_"}                   \* \w
Dashes     == {"-", "~"}                                           \* [-–]

None    == <<>>
Some(x) == <<x>>

SetMin(S) == CHOOSE x \in S : \A y \in S : x <= y
SetMax(S) == CHOOSE x \in S : \A y \in S : x >= y

\* the character at position i, "" outside the string
At(s, i) == IF i >= 1 /\ i <= Len(s) THEN Char(s, i) ELSE ""

\* how many consecutive characters from position i on are in cls
RunLen(s, i, cls) ==
    IF i > Len(s) THEN 0
    ELSE CHOOSE n \in 0..(Len(s) - i + 1) :
            /\ \A m \in i..(i + n - 1) : Char(s, m) \in cls
            /\ At(s, i + n) \notin cls

\* how many consecutive characters from position i on are not in cls
RunLenNot(s, i, cls) ==
    IF i > Len(s) THEN 0
    ELSE CHOOSE n \in 0..(Len(s) - i + 1) :
            /\ \A m \in i..(i + n - 1) : Char(s, m) \notin cls
            /\ (i + n > Len(s) \/ Char(s, i + n) \in cls)

\* the position after \s* read from p
SkipWs(s, p) == p + RunLen(s, p, Whitespace)

\* the literal lit stands at position p
LitAt(s, p, lit) ==
    p >= 1 /\ p + Len(lit) - 1 <= Len(s) /\ SubSeq(s, p, p + Len(lit) - 1) = lit

\* the same under re.IGNORECASE (lit is lower case)
LitAtI(s, p, lit) ==
    p >= 1 /\ p + Len(lit) - 1 <= Len(s)
    /\ Lower(SubSeq(s, p, p + Len(lit) - 1)) = lit

\* \d+ read from p: the position after the digits, 0 if there is none
AfterDigits(s, p) ==
    LET n == RunLen(s, p, DigitChars) IN IF n = 0 THEN 0 ELSE p + n

\* QuotedTitle closing only on the quote character that opened
QuotedTitleSameQuote(s, hi) ==
    LET Run(i) == RunLenNot(s, i + 2, Quotes)
        starts == {i \in 1..Len(s) :
                     /\ Char(s, i) \in Quotes
                     /\ At(s, i + 1) \in UpperChars
                     /\ Run(i) >= 3 /\ Run(i) <= hi
                     /\ At(s, i + 2 + Run(i)) = Char(s, i)}
    IN  IF starts = {} THEN None
        ELSE LET i == SetMin(starts)
             IN  Some(Strip(SubSeq(s, i + 1, i + 1 + Run(i))))

\* ["\']([A-Z][^"\']{3,hi})["\']
QuotedTitle(s, hi) ==
    LET Run(i) == RunLenNot(s, i + 2, Quotes)
        starts == {i \in 1..Len(s) :
                     /\ Char(s, i) \in Quotes
                     /\ At(s, i + 1) \in UpperChars
                     /\ Run(i) >= 3 /\ Run(i) <= hi
                     /\ At(s, i + 2 + Run(i)) \in Quotes}
    IN  IF starts = {} THEN None
        ELSE LET i == SetMin(starts)
             IN  Some(Strip(SubSeq(s, i + 1, i + 1 + Run(i))))

\* ["\']([^"\']{3,})["\']
QuotedAny(s) ==
    LET Run(i) == RunLenNot(s, i + 1, Quotes)
        starts == {i \in 1..Len(s) :
                     /\ Char(s, i) \in Quotes
                     /\ Run(i) >= 3
                     /\ At(s, i + 1 + Run(i)) \in Quotes}
    IN  IF starts = {} THEN None
        ELSE LET i == SetMin(starts)
             IN  Some(Strip(SubSeq(s, i + 1, i + Run(i))))

\* \s*\(202[0-9]\)
YearSuffix(s, p) ==
    LET q == SkipWs(s, p)
    IN  LitAt(s, q, "(202") /\ At(s, q + 4) \in DigitChars /\ At(s, q + 5) = ")"

\* \s*\[(?:Discussion|Review)
TagSuffix(s, p) ==
    LET q == SkipWs(s, p)
    IN  LitAt(s, q, "[Discussion") \/ LitAt(s, q, "[Review")

\* \s*[-–]\s*[Ss](?:eason)?\s*\d+
SeasonSuffix(s, p) ==
    LET q == SkipWs(s, p)
        r == SkipWs(s, q + 1)
    IN  /\ At(s, q) \in Dashes
        /\ At(s, r) \in {"S", "s"}
        /\ \/ AfterDigits(s, SkipWs(s, r + 1)) # 0
           \/ LitAt(s, r + 1, "eason") /\ AfterDigits(s, SkipWs(s, r + 6)) # 0

\* \s*[Ss]\d+[Ee]\d+
EpisodeSuffix(s, p) ==
    LET q == SkipWs(s, p)
        e == AfterDigits(s, q + 1)
    IN  /\ At(s, q) \in {"S", "s"}
        /\ e # 0
        /\ At(s, e) \in {"E", "e"}
        /\ At(s, e + 1) \in DigitChars

\* \s*\d+x\d+
CrossSuffix(s, p) ==
    LET x == AfterDigits(s, SkipWs(s, p))
    IN  x # 0 /\ At(s, x) = "x" /\ At(s, x + 1) \in DigitChars

\* \s*(?:\(202[0-9]\)|[-–]\s*[Ss]eason)
YearOrSeasonSuffix(s, p) ==
    LET q == SkipWs(s, p)
        r == SkipWs(s, q + 1)
    IN  \/ YearSuffix(s, p)
        \/ (At(s, q) \in Dashes /\ At(s, r) \in {"S", "s"} /\ LitAt(s, r + 1, "eason"))

\* ([A-Z][A-Za-z\s\':&-]{3,50})<suffix>, where `ends` holds the positions
\* from which the rest of the pattern matches
TitleBefore(s, ends) ==
    LET Ks(i)  == {k \in 3..Min(50, RunLen(s, i + 1, TitleChars)) :
                     i + 1 + k \in ends}
        starts == {i \in 1..Len(s) : Char(s, i) \in UpperChars /\ Ks(i) # {}}
    IN  IF starts = {} THEN None
        ELSE LET i == SetMin(starts)
             IN  Some(Strip(SubSeq(s, i, i + SetMax(Ks(i)))))

\* \[(?:Discussion|Review|Official)\]\s*([A-Z][A-Za-z\s\':&-]{3,50})
TagPrefixTitle(s) ==
    LET Start(j, tag) == SkipWs(s, j + Len(tag))
        Ok(j, tag) == /\ LitAt(s, j, tag)
                      /\ At(s, Start(j, tag)) \in UpperChars
                      /\ RunLen(s, Start(j, tag) + 1, TitleChars) >= 3
        tags   == {"[Discussion]", "[Review]", "[Official]"}
        starts == {j \in 1..Len(s) : \E tag \in tags : Ok(j, tag)}
    IN  IF starts = {} THEN None
        ELSE LET j   == SetMin(starts)
                 tag == CHOOSE t \in tags : Ok(j, t)
                 g   == Start(j, tag)
             IN  Some(Strip(SubSeq(s, g, g + Min(50, RunLen(s, g + 1, TitleChars)))))

\* \[([A-Z][A-Za-z\s\':&-]{3,50})\]
BracketedTitle(s) ==
    LET Run(j) == RunLen(s, j + 2, TitleChars)
        starts == {j \in 1..Len(s) :
                     /\ Char(s, j) = "["
                     /\ At(s, j + 1) \in UpperChars
                     /\ Run(j) >= 3 /\ Run(j) <= 50
                     /\ At(s, j + 2 + Run(j)) = "]"}
    IN  IF starts = {} THEN None
        ELSE LET j == SetMin(starts)
             IN  Some(Strip(SubSeq(s, j + 1, j + 1 + Run(j))))

\* (?:verb|...)\s+["\']?([A-Z][A-Za-z\s\':&-]{3,50})["\']?(?:\s+(?:is|was|and))?
\* under re.IGNORECASE, where [A-Z] is any letter; the optional tail never
\* makes the greedy group give a character back
VerbTitle(s, verbs) ==
    LET After(j, v) == j + Len(v)
        Group(j, v) ==
            LET q == SkipWs(s, After(j, v))
            IN  IF At(s, q) \in Quotes THEN q + 1 ELSE q
        Ok(j, v) == /\ LitAtI(s, j, v)
                    /\ At(s, After(j, v)) \in Whitespace
                    /\ At(s, Group(j, v)) \in Letters
                    /\ RunLen(s, Group(j, v) + 1, TitleChars) >= 3
        starts == {j \in 1..Len(s) : \E v \in verbs : Ok(j, v)}
    IN  IF starts = {} THEN None
        ELSE LET j == SetMin(starts)
                 v == CHOOSE w \in verbs : Ok(j, w)
                 g == Group(j, v)
             IN  Some(Strip(SubSeq(s, g, g + Min(50, RunLen(s, g + 1, TitleChars)))))

\* re.findall(r'\b[A-Z][a-zA-Z]{2,}\b', text)
RECURSIVE InOrder(_, _)
InOrder(s, starts) ==
    IF starts = {} THEN <<>>
    ELSE LET i == SetMin(starts)
         IN  <<SubSeq(s, i, i + RunLen(s, i + 1, Letters))>> \o InOrder(s, starts \ {i})

CapitalizedTokens(s) ==
    InOrder(s, {i \in 1..Len(s) :
                  /\ At(s, i - 1) \notin WordChars
                  /\ Char(s, i) \in UpperChars
                  /\ RunLen(s, i + 1, Letters) >= 2
                  /\ At(s, i + 1 + RunLen(s, i + 1, Letters)) \notin WordChars})

\* ' '.join(words)
RECURSIVE Join(_)
Join(words) ==
    IF words = <<>> THEN ""
    ELSE IF Len(words) = 1 THEN words[1]
    ELSE words[1] \o " " \o Join(Tail(words))

\* the first rule of the list that matched
RECURSIVE FirstMatch(_)
FirstMatch(rs) ==
    IF rs = <<>> THEN None
    ELSE IF Head(rs) # None THEN Head(rs) ELSE FirstMatch(Tail(rs))

(***************************************************************************)
(* Title Extractor.                                                        *)
(***************************************************************************)
\* ExtractMovieFromReddit falling back to the text itself
ExtractMovieFromRedditOrText(text) ==
    FirstMatch(<< QuotedTitle(text, 50),
                  TitleBefore(text, {p \in 1..Len(text) + 1 : YearSuffix(text, p)}),
                  TagPrefixTitle(text),
                  TitleBefore(text, {p \in 1..Len(text) + 1 : TagSuffix(text, p)}),
                  VerbTitle(text, {"watched", "saw", "loved", "hated"}),
                  Some(Strip(text)) >>)

\* TrendAnalyst._extract_movie_from_reddit
ExtractMovieFromReddit(text) ==
    FirstMatch(<< QuotedTitle(text, 50),
                  TitleBefore(text, {p \in 1..Len(text) + 1 : YearSuffix(text, p)}),
                  TagPrefixTitle(text),
                  TitleBefore(text, {p \in 1..Len(text) + 1 : TagSuffix(text, p)}),
                  VerbTitle(text, {"watched", "saw", "loved", "hated"}) >>)

AttributionWords == {"said", "says", "told", "revealed"}

\* ExtractShowFromReddit with the SxxEyy rule tried before the [Title] rule
ExtractShowFromRedditEpisodeFirst(text) ==
    LET quoted == QuotedTitle(text, 60)
        kept   == IF quoted # None
                     /\ \A word \in AttributionWords : ~Contains(word, Lower(quoted[1]))
                  THEN quoted ELSE None
    IN  FirstMatch(<< kept,
                      TitleBefore(text, {p \in 1..Len(text) + 1 : SeasonSuffix(text, p)}),
                      TitleBefore(text, {p \in 1..Len(text) + 1 : EpisodeSuffix(text, p)}),
                      BracketedTitle(text),
                      TitleBefore(text, {p \in 1..Len(text) + 1 : CrossSuffix(text, p)}),
                      VerbTitle(text, {"watched", "binged", "finished", "loved", "hated"}) >>)

\* TVTrendAnalyst._extract_show_from_reddit
ExtractShowFromReddit(text) ==
    LET quoted == QuotedTitle(text, 60)
        kept   == IF quoted # None
                     /\ \A word \in AttributionWords : ~Contains(word, Lower(quoted[1]))
                  THEN quoted ELSE None
    IN  FirstMatch(<< kept,
                      TitleBefore(text, {p \in 1..Len(text) + 1 : SeasonSuffix(text, p)}),
                      BracketedTitle(text),
                      TitleBefore(text, {p \in 1..Len(text) + 1 : EpisodeSuffix(text, p)}),
                      TitleBefore(text, {p \in 1..Len(text) + 1 : CrossSuffix(text, p)}),
                      VerbTitle(text, {"watched", "binged", "finished", "loved", "hated"}) >>)

\* ExtractMovieTitle taking the run of capitalized words as the TV extractor
\* does: 2 to 8 words, all of them joined
ExtractMovieTitleUpTo8(text) ==
    IF Len(text) < 5 THEN None
    ELSE LET words == CapitalizedTokens(text)
             title == Join(Prefix(words, 8))
             run   == IF 2 <= Len(words) /\ Len(words) <= 8
                         /\ 8 <= Len(title) /\ Len(title) <= 60
                      THEN Some(title) ELSE None
         IN  FirstMatch(<< QuotedAny(text),
                           TitleBefore(text, {p \in 1..Len(text) + 1 : YearSuffix(text, p)}),
                           run >>)

\* TrendAnalyst._extract_movie_title
ExtractMovieTitle(text) ==
    IF Len(text) < 5 THEN None
    ELSE LET words == CapitalizedTokens(text)
             title == Join(Prefix(words, 6))
             run   == IF Len(words) >= 2 /\ 8 <= Len(title) /\ Len(title) <= 60
                      THEN Some(title) ELSE None
         IN  FirstMatch(<< QuotedAny(text),
                           TitleBefore(text, {p \in 1..Len(text) + 1 : YearSuffix(text, p)}),
                           run >>)

\* TVTrendAnalyst._extract_show_title
ExtractShowTitle(text) ==
    IF Len(text) < 5 THEN None
    ELSE LET words == CapitalizedTokens(text)
             title == Join(Prefix(words, 8))
             run   == IF 2 <= Len(words) /\ Len(words) <= 8
                         /\ 8 <= Len(title) /\ Len(title) <= 80
                      THEN Some(title) ELSE None
         IN  FirstMatch(<< QuotedAny(text),
                           TitleBefore(text, {p \in 1..Len(text) + 1 : YearOrSeasonSuffix(text, p)}),
                           run >>)

(***************************************************************************)
(* collections.Counter / dict as the sequence of its items, in insertion   *)
(* order: each item is [title, score].                                     *)
(***************************************************************************)
Keys(c) == {c[i].title : i \in 1..Len(c)}

IndexOf(c, t) == CHOOSE i \in 1..Len(c) : c[i].title = t

\* c[t]  (a Counter answers 0 for a missing key)
Get(c, t) == IF t \in Keys(c) THEN c[IndexOf(c, t)].score ELSE 0

\* CounterAdd with  c[t] = w  in place of  c[t] += w
CounterSet(c, t, w) ==
    IF t \in Keys(c)
    THEN [c EXCEPT ![IndexOf(c, t)].score = w]
    ELSE Append(c, [title |-> t, score |-> w])

\* c[t] += w
CounterAdd(c, t, w) ==
    IF t \in Keys(c)
    THEN [c EXCEPT ![IndexOf(c, t)].score = @ + w]
    ELSE Append(c, [title |-> t, score |-> w])

\* MergeDict without the source multiplier
RECURSIVE MergeDictNoMultiplier(_, _, _)
MergeDictNoMultiplier(c, d, mult) ==
    IF d = <<>> THEN c
    ELSE MergeDictNoMultiplier(CounterAdd(c, Head(d).title, Head(d).score), Tail(d), mult)

\* for t, score in d.items(): c[t] += score * mult
RECURSIVE MergeDict(_, _, _)
MergeDict(c, d, mult) ==
    IF d = <<>> THEN c
    ELSE MergeDict(CounterAdd(c, Head(d).title, Head(d).score * mult), Tail(d), mult)

\* for t in l: c[t] += w
RECURSIVE MergeList(_, _, _)
MergeList(c, l, w) ==
    IF l = <<>> THEN c
    ELSE MergeList(CounterAdd(c, Head(l), w), Tail(l), w)

\* Before with ties going to the item inserted last
BeforeLastInserted(c, i, j) ==
    \/ c[i].score > c[j].score
    \/ (c[i].score = c[j].score /\ i > j)

\* Counter.most_common(n): sorted(items, key=score, reverse=True)[:n]; the
\* sort is stable, so equal scores keep their insertion order.
Before(c, i, j) ==
    \/ c[i].score > c[j].score
    \/ (c[i].score = c[j].score /\ i < j)

RankOf(c, i) == 1 + Cardinality({j \in 1..Len(c) : Before(c, j, i)})

SortedDesc(c) ==
    [k \in 1..Len(c) |-> c[CHOOSE i \in 1..Len(c) : RankOf(c, i) = k]]

MostCommon(c, n) == IF n <= 0 THEN <<>> ELSE Prefix(SortedDesc(c), n)

(***************************************************************************)
(* What a source answers when its scraper runs.                            *)
(*   stub        the scraper method is replaced by a stub returning body   *)
(*   setup_error cloudscraper.create_scraper() raises                      *)
(*   net_error   the GET raises (connection error, timeout)                *)
(*   parse_error BeautifulSoup / the selector lookup raises                *)
(*   http        the GET answers with `status`; body holds, per selector   *)
(*               of the scraper, the texts of the elements it selects      *)
(***************************************************************************)
Stub(v)       == [kind |-> "stub",        status |-> 0, body |-> v]
SetupError    == [kind |-> "setup_error", status |-> 0, body |-> <<>>]
NetError      == [kind |-> "net_error",   status |-> 0, body |-> <<>>]
ParseError    == [kind |-> "parse_error", status |-> 200, body |-> <<>>]
\* the page came with status 200 and an exception left the parsing after the
\* elements of b had been handled
ParseErrorAfter(b) == [kind |-> "parse_error", status |-> 200, body |-> b]
Http(st, b)   == [kind |-> "http",        status |-> st, body |-> b]

\* what a scraper call does: it returns `value`, or an exception leaves it
Returns(v) == [raised |-> FALSE, value |-> v]
Raises     == [raised |-> TRUE,  value |-> <<>>]

(***************************************************************************)
(* list(set(titles)): the distinct titles, in the order of the set's hash  *)
(* table.  For strings that order is fixed by the process's hash seed and  *)
(* by nothing in the program; the seed picks one of two orders here.       *)
(***************************************************************************)
HashSeeds == {"first_seen", "last_seen"}

RECURSIVE Distinct(_)
Distinct(l) ==
    IF l = <<>> THEN <<>>
    ELSE LET front == SubSeq(l, 1, Len(l) - 1)
             x     == l[Len(l)]
         IN  IF \E i \in 1..Len(front) : front[i] = x
             THEN Distinct(front)
             ELSE Append(Distinct(front), x)

Reverse(l) == [i \in 1..Len(l) |-> l[Len(l) + 1 - i]]

ListOfSet(titles, seed) ==
    IF seed = "first_seen" THEN Distinct(titles) ELSE Reverse(Distinct(titles))

(***************************************************************************)
(* The list scrapers.                                                      *)
(***************************************************************************)
\* title = elem.get_text().strip(); if title and len(title) > 2: append
PlainTitles(elems) ==
    SelectSeq([i \in 1..Len(elems) |-> Strip(elems[i])], LAMBDA t : Len(t) > 2)

\* re.sub(r'^\d+\.\s*', '', title)
LeadingDigits(t) ==
    IF t = "" \/ Head(t) \notin DigitChars THEN 0
    ELSE CHOOSE d \in 1..Len(t) :
            /\ \A i \in 1..d : Char(t, i) \in DigitChars
            /\ (d = Len(t) \/ Char(t, d + 1) \notin DigitChars)

StripRank(t) ==
    LET d == LeadingDigits(t)
    IN  IF d >= 1 /\ d < Len(t) /\ Char(t, d + 1) = "."
        THEN LStrip(SubSeq(t, d + 2, Len(t)))
        ELSE t

\* the IMDb element loop: strip, drop the rank, keep real titles
ImdbTitles(elems) ==
    SelectSeq([i \in 1..Len(elems) |-> StripRank(Strip(elems[i]))],
              LAMBDA t : Len(t) > 2 /\ ~IsDigit(t))

\* the element loop of one selector: the plain one, or IMDb's
CleanTitles(how, elems) ==
    IF how = "imdb" THEN ImdbTitles(elems) ELSE PlainTitles(elems)

\* the selector loop leaving at the first selector that gave a title
RECURSIVE SelectorLoopFirstWins(_, _, _, _, _)
SelectorLoopFirstWins(body, k, titles, limit, how) ==
    IF k > Len(body) THEN titles
    ELSE LET more == titles \o CleanTitles(how, body[k])
         IN  IF Len(more) > 0 THEN more
             ELSE SelectorLoopFirstWins(body, k + 1, more, limit, how)

\* for selector in selectors: <append its titles>; if len(titles) > limit: break
RECURSIVE SelectorLoop(_, _, _, _, _)
SelectorLoop(body, k, titles, limit, how) ==
    IF k > Len(body) THEN titles
    ELSE LET more == titles \o CleanTitles(how, body[k])
         IN  IF Len(more) > limit THEN more
             ELSE SelectorLoop(body, k + 1, more, limit, how)

\* TrendAnalyst._get_letterboxd_trending
GetLetterboxdTrending(resp, seed) ==
    CASE resp.kind = "stub" -> Returns(resp.body)
      [] resp.kind \in {"net_error", "parse_error"} -> Returns(<<>>)
      [] resp.kind = "http" /\ resp.status # 200 -> Returns(<<>>)
      [] OTHER ->
           Returns(Prefix(ListOfSet(SelectorLoop(resp.body, 1, <<>>, 10, "plain"),
                                    seed), 15))

\* TrendAnalyst._get_imdb_trending
GetImdbTrending(resp) ==
    CASE resp.kind = "stub" -> Returns(resp.body)
      [] resp.kind \in {"net_error", "parse_error"} -> Returns(<<>>)
      [] resp.kind = "http" /\ resp.status # 200 -> Returns(<<>>)
      [] OTHER -> Returns(Prefix(SelectorLoop(resp.body, 1, <<>>, 5, "imdb"), 10))

\* TVTrendAnalyst._get_imdb_tv_trending
GetImdbTvTrending(resp) ==
    CASE resp.kind = "stub" -> Returns(resp.body)
      [] resp.kind \in {"net_error", "parse_error"} -> Returns(<<>>)
      [] resp.kind = "http" /\ resp.status # 200 -> Returns(<<>>)
      [] OTHER -> Returns(Prefix(SelectorLoop(resp.body, 1, <<>>, 5, "imdb"), 15))

\* _get_trakt_trending without its try/except around the request
GetTraktTrendingNoTry(resp, seed) ==
    CASE resp.kind = "stub" -> Returns(resp.body)
      [] resp.kind = "net_error" -> Raises
      [] resp.kind = "parse_error" -> Returns(<<>>)
      [] resp.kind = "http" /\ resp.status # 200 -> Returns(<<>>)
      [] OTHER ->
           Returns(Prefix(ListOfSet(SelectorLoop(resp.body, 1, <<>>, 8, "plain"),
                                    seed), 15))

\* TVTrendAnalyst._get_trakt_trending
GetTraktTrending(resp, seed) ==
    CASE resp.kind = "stub" -> Returns(resp.body)
      [] resp.kind \in {"net_error", "parse_error"} -> Returns(<<>>)
      [] resp.kind = "http" /\ resp.status # 200 -> Returns(<<>>)
      [] OTHER ->
           Returns(Prefix(ListOfSet(SelectorLoop(resp.body, 1, <<>>, 8, "plain"),
                                    seed), 15))

\* TVTrendAnalyst._get_letterboxd_series: one selector, a[href*="/film/"]
GetLetterboxdSeries(resp, seed) ==
    CASE resp.kind = "stub" -> Returns(resp.body)
      [] resp.kind \in {"net_error", "parse_error"} -> Returns(<<>>)
      [] resp.kind = "http" /\ resp.status # 200 -> Returns(<<>>)
      [] OTHER -> Returns(Prefix(ListOfSet(PlainTitles(resp.body[1]), seed), 10))

(***************************************************************************)
(* The cloudscraper sources: Google Trends and Reddit.                     *)
(***************************************************************************)
\* for selector in selectors: items = soup.select(selector)[:20]; if items: ... break
FirstSelected(body) ==
    LET hits == {k \in 1..Len(body) : body[k] # <<>>}
    IN  IF hits = {} THEN <<>> ELSE Prefix(body[SetMin(hits)], 20)

MovieIndicators == {"movie", "film"}

TvIndicators ==
    {"series", "season", "episode", "tv show", "television",
     "streaming", "netflix", "hbo", "apple tv", "prime video"}

\* if title and self._is_likely_...(title): counter[title] += w
CountIfLikely(c, found, likely, w) ==
    IF found # None /\ found[1] # "" /\ likely THEN CounterAdd(c, found[1], w) ELSE c

\* the item loop of _get_google_trends_scrape
RECURSIVE GoogleMovieLoop(_, _)
GoogleMovieLoop(c, items) ==
    IF items = <<>> THEN c
    ELSE LET text  == Strip(Head(items))
             found == IF \E w \in MovieIndicators : Contains(w, Lower(text))
                      THEN ExtractMovieTitle(text) ELSE None
         IN  GoogleMovieLoop(
                 CountIfLikely(c, found, found # None /\ IsLikelyMovie(found[1]), 10),
                 Tail(items))

\* the item loop of _get_google_trends_tv
RECURSIVE GoogleTvLoop(_, _)
GoogleTvLoop(c, items) ==
    IF items = <<>> THEN c
    ELSE LET text  == Strip(Head(items))
             found == IF \E w \in TvIndicators : Contains(w, Lower(text))
                      THEN ExtractShowTitle(text) ELSE None
         IN  GoogleTvLoop(
                 CountIfLikely(c, found, found # None /\ IsLikelyTvShow(found[1]), 8),
                 Tail(items))

\* _get_google_trends_scrape returning {} from its except block
GetGoogleTrendsScrapeEmptyOnError(resp) ==
    CASE resp.kind = "stub" -> Returns(resp.body)
      [] resp.kind = "setup_error" -> Raises
      [] resp.kind \in {"net_error", "parse_error"} -> Returns(<<>>)
      [] resp.kind = "http" /\ resp.status # 200 -> Returns(<<>>)
      [] OTHER -> Returns(MostCommon(GoogleMovieLoop(<<>>, FirstSelected(resp.body)), 8))

\* TrendAnalyst._get_google_trends_scrape
GetGoogleTrendsScrape(resp) ==
    CASE resp.kind = "stub" -> Returns(resp.body)
      [] resp.kind = "setup_error" -> Raises
      [] resp.kind = "net_error" -> Returns(<<>>)
      [] resp.kind = "http" /\ resp.status # 200 -> Returns(<<>>)
      [] OTHER -> Returns(MostCommon(GoogleMovieLoop(<<>>, FirstSelected(resp.body)), 8))

\* TVTrendAnalyst._get_google_trends_tv
GetGoogleTrendsTv(resp) ==
    CASE resp.kind = "stub" -> Returns(resp.body)
      [] resp.kind = "setup_error" -> Raises
      [] resp.kind = "net_error" -> Returns(<<>>)
      [] resp.kind = "http" /\ resp.status # 200 -> Returns(<<>>)
      [] OTHER -> Returns(MostCommon(GoogleTvLoop(<<>>, FirstSelected(resp.body)), 10))

\* the post loop of one subreddit: a post is <<title text>>, or <<>> when it
\* has no a.title element
RECURSIVE RedditMovieLoop(_, _)
RedditMovieLoop(c, posts) ==
    IF posts = <<>> THEN c
    ELSE LET found == IF Head(posts) = <<>> THEN None
                      ELSE ExtractMovieFromReddit(Strip(Head(posts)[1]))
         IN  RedditMovieLoop(
                 CountIfLikely(c, found, found # None /\ IsLikelyMovie(found[1]), 2),
                 Tail(posts))

RECURSIVE RedditTvLoop(_, _)
RedditTvLoop(c, posts) ==
    IF posts = <<>> THEN c
    ELSE LET found == IF Head(posts) = <<>> THEN None
                      ELSE ExtractShowFromReddit(Strip(Head(posts)[1]))
         IN  RedditTvLoop(
                 CountIfLikely(c, found, found # None /\ IsLikelyTvShow(found[1]), 2),
                 Tail(posts))

\* for subreddit in subreddits: try: ... except: continue
\* pages[k] is what subreddit k answers; a failed one is skipped, keeping
\* what its posts added before the exception
RECURSIVE SubredditLoop(_, _, _)
SubredditLoop(c, pages, how) ==
    IF pages = <<>> THEN c
    ELSE LET page == Head(pages)
             c2   == IF page.kind = "net_error" \/ page.status # 200 THEN c
                     ELSE IF how = "movie"
                          THEN RedditMovieLoop(c, Prefix(page.body, 25))
                          ELSE RedditTvLoop(c, Prefix(page.body, 25))
         IN  SubredditLoop(c2, Tail(pages), how)

\* TrendAnalyst._get_reddit_scrape: resp.body holds the answers of the
\* subreddits movies, flicks, TrueFilm, MovieSuggestions
GetRedditScrape(resp) ==
    CASE resp.kind = "stub" -> Returns(resp.body)
      [] resp.kind = "setup_error" -> Raises
      [] OTHER -> Returns(MostCommon(SubredditLoop(<<>>, resp.body, "movie"), 12))

\* TVTrendAnalyst._get_reddit_tv_scrape: resp.body holds the answers of its
\* ten subreddits
GetRedditTvScrape(resp) ==
    CASE resp.kind = "stub" -> Returns(resp.body)
      [] resp.kind = "setup_error" -> Raises
      [] OTHER -> Returns(MostCommon(SubredditLoop(<<>>, resp.body, "tv"), 15))

(***************************************************************************)
(* The answers the sources give in the model: for each source a few stubs  *)
(* (the scraper method replaced, as a test does), failures and pages.      *)
(***************************************************************************)
Item(t, w) == [title |-> t, score |-> w]

\* a list longer than every [:k] of the aggregators
LongList ==
    <<"Dune Part Two", "The Bear", "Barbie", "Dune", "Past Lives", "Poor Things",
      "The Holdovers", "Shogun", "Severance", "The Zone", "Oppenheimer">>

GoogleMovieAnswers ==
    { Stub(<<Item("Oppenheimer", 1)>>),
      Stub(<<Item("Dune", 10)>>),
      SetupError,
      NetError,
      Http(503, <<>>),
      ParseError,
      ParseErrorAfter(<< <<>>, <<"Dune Part Two (2024) movie">> >>),
      Http(200, << <<>>,
                   <<"Dune Part Two (2024) movie", " The Bear film review ",
                     "Election results">>,
                   <<"Past Lives (2023) film">>,
                   <<>> >>) }

RedditMovieAnswers ==
    { Stub(<<Item("Oppenheimer", 1), Item("Barbie", 1)>>),
      Stub(<<Item("Dune", 5)>>),
      SetupError,
      Http(200, <<NetError, NetError, Http(429, <<>>), ParseError>>),
      Http(200, << ParseErrorAfter(<< <<"Past Lives (2023)">> >>),
                   Http(200, << <<"[Discussion] The Bear">> >>),
                   ParseError,
                   Http(503, << <<"Dune Part Two (2024)">> >>) >>),
      Http(200, << Http(200, << <<"Dune Part Two (2024) was great">>, <<>>,
                                <<"random text with no pattern">> >>),
                   NetError,
                   Http(429, << <<"Barbie (2023)">> >>),
                   Http(200, << <<"[Discussion] The Bear">>,
                                <<"I just watched \"Oppenheimer\" last night">>,
                                <<"The Bear [Review]">> >>) >>) }

LetterboxdAnswers ==
    { Stub(<<"Oppenheimer">>),
      Stub(<<"Oppenheimer", "Barbie", "Dune", "Dune Part Two">>),
      Stub(Prefix(LongList, 9)),
      NetError,
      Http(404, <<>>),
      Http(200, << <<" Dune Part Two ", "The Bear">>, <<"The Bear", "x">>, <<>> >>),
      Http(200, << <<"Dune Part Two">>, <<"Past Lives", "Dune Part Two">>,
                   <<"Barbie">> >>) }

ImdbAnswers ==
    { Stub(<<>>),
      Http(503, <<>>),
      ParseError,
      Http(200, << <<"1. Dune Part Two", "2. The Bear", "3. Dune">>,
                   <<"Dune Part Two", "The Bear", "Dune">>,
                   <<"How I Met Your Mother", "2024">> >>) }

RedditTvAnswers ==
    { Stub(<<Item("The Bear", 4), Item("Severance", 2)>>),
      SetupError,
      Http(200, <<NetError, Http(403, <<>>), NetError, NetError, NetError,
                  ParseError, NetError, Http(503, <<>>), NetError, NetError>>),
      Http(200, << Http(200, << <<"The Bear - Season 3 Review">>,
                                <<"[The Review] Discussion">> >>),
                   NetError, Http(403, <<>>),
                   ParseErrorAfter(<< <<"Poor Things - Season 2 talk">> >>),
                   Http(200, << <<"Who binged Dune Part Two is great">>, <<>> >>),
                   Http(200, <<>>), Http(200, <<>>), Http(200, <<>>),
                   Http(200, <<>>),
                   Http(200, << <<"The Bear S03E01 thoughts">> >>) >>) }

ImdbTvAnswers ==
    { Http(503, <<>>),
      Stub(<<"Severance", "Shogun">>),
      Http(200, << <<>>,
                   <<"1. The Bear", "2. The Review", "3. Severance", "4. 2024">>,
                   <<"The Bear", "The Review", "Severance", "Can You Hear Me",
                     "The Bear", "The Bear", "The Bear", "Dune Part Two">>,
                   <<"Shogun">> >>) }

TraktAnswers ==
    { Stub(<<"Dune Part Two">>),
      Stub(LongList),
      NetError,
      Http(200, << <<"The Review", "The Bear">>, <<"The Bear">>, <<>> >>) }

LetterboxdSeriesAnswers ==
    { Http(404, <<>>),
      ParseError,
      Stub(Prefix(LongList, 9)),
      Http(200, << <<"Dune Part Two", " The Review ", "Dune Part Two">> >>) }

GoogleTvAnswers ==
    { Stub(<<Item("The Bear", 8)>>),
      SetupError,
      NetError,
      ParseErrorAfter(<< <<"The Bear season finale">> >>),
      Http(200, << <<"The Bear season finale", "Dune Part Two - Season 2 streaming",
                     "Election results">>,
                   <<"Poor Things - Season 2 streaming">>, <<>> >>) }

\* a source the running domain does not have
NoAnswer == Stub(<<>>)

MovieEnvs ==
    [google : GoogleMovieAnswers, reddit : RedditMovieAnswers,
     letterboxd : LetterboxdAnswers, imdb : ImdbAnswers, trakt : {NoAnswer}]

TvEnvs ==
    [google : GoogleTvAnswers, reddit : RedditTvAnswers,
     letterboxd : LetterboxdSeriesAnswers, imdb : ImdbTvAnswers, trakt : TraktAnswers]

(***************************************************************************)
(* Each scraper applied to each answer of its source, evaluated once.      *)
(***************************************************************************)
google_movies_of ==
    [r \in GoogleMovieAnswers |-> GetGoogleTrendsScrape(r)]

reddit_movies_of ==
    [r \in RedditMovieAnswers |-> GetRedditScrape(r)]

letterboxd_movies_of ==
    [r \in LetterboxdAnswers |-> [h \in HashSeeds |-> GetLetterboxdTrending(r, h)]]

imdb_movies_of ==
    [r \in ImdbAnswers |-> GetImdbTrending(r)]

reddit_shows_of ==
    [r \in RedditTvAnswers |-> GetRedditTvScrape(r)]

imdb_shows_of ==
    [r \in ImdbTvAnswers |-> GetImdbTvTrending(r)]

trakt_shows_of ==
    [r \in TraktAnswers |-> [h \in HashSeeds |-> GetTraktTrending(r, h)]]

letterboxd_shows_of ==
    [r \in LetterboxdSeriesAnswers |-> [h \in HashSeeds |-> GetLetterboxdSeries(r, h)]]

google_shows_of ==
    [r \in GoogleTvAnswers |-> GetGoogleTrendsTv(r)]

(***************************************************************************)
(* The aggregation call.                                                   *)
(***************************************************************************)
NoLocals ==
    [google |-> <<>>, reddit |-> <<>>, letterboxd |-> <<>>, imdb |-> <<>>,
     trakt |-> <<>>]

NoEnv ==
    [google |-> NoAnswer, reddit |-> NoAnswer, letterboxd |-> NoAnswer,
     imdb |-> NoAnswer, trakt |-> NoAnswer]

NoCall == [domain |-> "none", top_n |-> 0, env |-> NoEnv, result |-> <<>>]

\* no direct call of the filter or of an extractor was made
NotCalled == [fn |-> "none", value |-> <<>>]

\* publish_to_hashnode has returned nothing
NoReturn == [status |-> "none", draft_id |-> None]

\* publish_to_hashnode is not running
HashnodeIdle ==
    /\ hn_pc = "idle"
    /\ publish = TRUE
    /\ field = 0
    /\ sent = <<>>
    /\ draft_id = None
    /\ returned = NoReturn

\* no review generator is running
ReviewIdle ==
    /\ gen = [fn |-> "none", groq_client |-> FALSE, configured |-> <<>>]
    /\ gr_pc = "idle"
    /\ models = <<>>
    /\ tried = <<>>
    /\ generated = None

\* no stage of the pipeline has ended
NoOutcome == [movie |-> "none", tv |-> "none"]

(***************************************************************************)
(* storage.py: last_draft.json.  The file is missing, or holds text that   *)
(* json.loads rejects, or holds the dict save_last_draft wrote: one record *)
(* per kind.  A day is a number; the run happens on day Today.             *)
(***************************************************************************)
Today == 10

Kinds == {"movie", "tv"}

\* datetime.utcnow().isoformat() + "Z": the text of a datetime without offset
UtcnowIsoformat(day) == [day |-> day, offset |-> "none", z |-> TRUE]

\* datetime.fromisoformat(ts.rstrip('Z')): naive when the text has no offset
FromIsoformat(ts) == [day |-> ts.day, tzinfo |-> ts.offset]

\* datetime.now(timezone.utc) - ts_dt: an aware datetime minus a naive one
\* raises TypeError (None here); otherwise the days between them
NowUtcMinus(ts_dt) ==
    IF ts_dt.tzinfo = "none" THEN None ELSE Some(Today - ts_dt.day)

\* the record save_last_draft writes under a kind
DraftRecord(item, id, day) ==
    [item |-> item, draft_id |-> id, timestamp |-> UtcnowIsoformat(day)]

NoRecords == [kind \in Kinds |-> None]

NoFile         == [file |-> "missing", data |-> NoRecords]
UnreadableFile == [file |-> "unreadable", data |-> NoRecords]
DictFile(data) == [file |-> "dict", data |-> data]

\* save_last_draft writing the new record alone, whatever the file held
SaveLastDraftAlone(st, item, id, kind) ==
    DictFile([NoRecords EXCEPT ![kind] = Some(DraftRecord(item, id, Today))])

\* save_last_draft(item, draft_id, kind)
SaveLastDraft(st, item, id, kind) ==
    LET data == IF st.file = "dict" THEN st.data ELSE NoRecords
    IN  DictFile([data EXCEPT ![kind] = Some(DraftRecord(item, id, Today))])

\* get_last_draft(kind)
GetLastDraft(st, kind) ==
    IF st.file # "dict" THEN None ELSE st.data[kind]

\* the locals of run_movie_review_pipeline before it runs
PipelineLocalsIdle ==
    /\ step = "idle"
    /\ stage = "movie"
    /\ trending = <<>>
    /\ alt = 0
    /\ movie = None
    /\ details = None
    /\ calls = <<>>
    /\ outcome = NoOutcome
    /\ entry = "none"
    /\ review = ""
    /\ submitted = <<>>
    /\ decision = ""
    /\ prompts = <<>>

\* run_movie_review_pipeline is not running
PipelineIdle ==
    /\ PipelineLocalsIdle
    /\ store = NoFile
    /\ present = {}

Init ==
    /\ pc = "idle"
    /\ domain = "movie"
    /\ top_n = 0
    /\ env = NoEnv
    /\ ret = NoLocals
    /\ buzz_scores = <<>>
    /\ result = <<>>
    /\ hashSeed \in HashSeeds
    /\ last = NoCall
    /\ invoked = <<>>
    /\ raw_text = ""
    /\ answer = NotCalled
    /\ PipelineIdle
    /\ HashnodeIdle
    /\ ReviewIdle
    /\ credentials = TRUE

\* analyst.analyze_trending_movies(top_n) / analyze_trending_shows(top_n) is
\* called: buzz_scores = Counter()
Call ==
    /\ pc = "idle"
    /\ last = NoCall
    /\ \E d \in {"movie", "tv"}, n \in 0..MaxTopN :
          /\ domain' = d
          /\ top_n' = n
          /\ env' \in (IF d = "movie" THEN MovieEnvs ELSE TvEnvs)
          /\ pc' = (IF d = "movie" THEN "google" ELSE "reddit")
    /\ ret' = NoLocals
    /\ buzz_scores' = <<>>
    /\ result' = <<>>
    /\ invoked' = <<>>
    /\ UNCHANGED <<hashSeed, last>>
    /\ UNCHANGED outsideAggregator

\* one source block of the aggregator: the scraper call did `out`; if it
\* returned, its value is bound to the local and merged
SourceStep(src, out, merged, next) ==
    /\ IF out.raised
       THEN /\ pc' = "raised"
            /\ UNCHANGED <<ret, buzz_scores>>
       ELSE /\ pc' = next
            /\ ret' = [ret EXCEPT ![src] = out.value]
            /\ buzz_scores' = merged
    /\ invoked' = Append(invoked, src)
    /\ UNCHANGED <<domain, top_n, env, result, hashSeed, last>>
    /\ UNCHANGED outsideAggregator

\* movie 1. GOOGLE TRENDS: buzz_scores[movie] += score * 4
MovieGoogleTrends ==
    /\ domain = "movie" /\ pc = "google"
    /\ LET out == google_movies_of[env.google]
       IN  SourceStep("google", out, MergeDict(buzz_scores, out.value, 4), "reddit")

\* movie 2. REDDIT SCRAPING: buzz_scores[movie] += score * 2
MovieReddit ==
    /\ domain = "movie" /\ pc = "reddit"
    /\ LET out == reddit_movies_of[env.reddit]
       IN  SourceStep("reddit", out, MergeDict(buzz_scores, out.value, 2), "letterboxd")

\* movie 3 without the slice: for movie in letterboxd_movies: += 15
MovieLetterboxdUncapped ==
    /\ domain = "movie" /\ pc = "letterboxd"
    /\ LET out == letterboxd_movies_of[env.letterboxd][hashSeed]
       IN  SourceStep("letterboxd", out, MergeList(buzz_scores, out.value, 15), "imdb")

\* movie 3. LETTERBOXD: for movie in letterboxd_movies[:8]: += 15
MovieLetterboxd ==
    /\ domain = "movie" /\ pc = "letterboxd"
    /\ LET out == letterboxd_movies_of[env.letterboxd][hashSeed]
       IN  SourceStep("letterboxd", out,
                      MergeList(buzz_scores, Prefix(out.value, 8), 15), "imdb")

\* movie 4. IMDB MOVIEMETER: for movie in imdb_movies[:5]: += 12
MovieImdb ==
    /\ domain = "movie" /\ pc = "imdb"
    /\ LET out == imdb_movies_of[env.imdb]
       IN  SourceStep("imdb", out,
                      MergeList(buzz_scores, Prefix(out.value, 5), 12), "rank")

\* tv 1. REDDIT TV COMMUNITIES: buzz_scores[show] += score * 3
TvReddit ==
    /\ domain = "tv" /\ pc = "reddit"
    /\ LET out == reddit_shows_of[env.reddit]
       IN  SourceStep("reddit", out, MergeDict(buzz_scores, out.value, 3), "imdb")

\* tv 2. IMDB TV METER: for show in imdb_shows[:8]: += 20
TvImdb ==
    /\ domain = "tv" /\ pc = "imdb"
    /\ LET out == imdb_shows_of[env.imdb]
       IN  SourceStep("imdb", out,
                      MergeList(buzz_scores, Prefix(out.value, 8), 20), "trakt")

\* tv 3. TRAKT.TV: for show in trakt_shows[:10]: += 15
TvTrakt ==
    /\ domain = "tv" /\ pc = "trakt"
    /\ LET out == trakt_shows_of[env.trakt][hashSeed]
       IN  SourceStep("trakt", out,
                      MergeList(buzz_scores, Prefix(out.value, 10), 15), "letterboxd")

\* tv 4. LETTERBOXD TV/SERIES: for show in letterboxd_shows[:8]: += 12
TvLetterboxd ==
    /\ domain = "tv" /\ pc = "letterboxd"
    /\ LET out == letterboxd_shows_of[env.letterboxd][hashSeed]
       IN  SourceStep("letterboxd", out,
                      MergeList(buzz_scores, Prefix(out.value, 8), 12), "google")

\* tv 5. GOOGLE TRENDS TV: buzz_scores[show] += score * 2
TvGoogleTrends ==
    /\ domain = "tv" /\ pc = "google"
    /\ LET out == google_shows_of[env.google]
       IN  SourceStep("google", out, MergeDict(buzz_scores, out.value, 2), "rank")

\* the Candidate Filter of the domain
IsLikely(d, title) == IF d = "movie" THEN IsLikelyMovie(title) ELSE IsLikelyTvShow(title)

\* TopFiltered without the final [:top_n]
TopFilteredNoSlice(c, d, n) ==
    SelectSeq(MostCommon(c, n * 3), LAMBDA it : IsLikely(d, it.title))

\* TopFiltered without the Candidate Filter
TopUnfiltered(c, d, n) == Prefix(MostCommon(c, n * 3), n)

\* TopFiltered with the filter run over the whole ranking
TopFilteredAll(c, d, n) ==
    Prefix(SelectSeq(MostCommon(c, Len(c)), LAMBDA it : IsLikely(d, it.title)), n)

\* [(m, s) for m, s in buzz_scores.most_common(top_n * 3) if likely(m)][:top_n]
TopFiltered(c, d, n) ==
    Prefix(SelectSeq(MostCommon(c, n * 3), LAMBDA it : IsLikely(d, it.title)), n)

\* AsResult with a placeholder entry when nothing was found
AsResultOrDefault(top) ==
    IF top = <<>> THEN <<[title |-> "Unknown", buzz_score |-> 0]>>
    ELSE [i \in 1..Len(top) |-> [title |-> top[i].title, buzz_score |-> top[i].score]]

\* [{"title": movie, "buzz_score": score} for movie, score in top_movies]
AsResult(top) == [i \in 1..Len(top) |-> [title |-> top[i].title, buzz_score |-> top[i].score]]

\* the filter-and-rank tail of both aggregators, and their return
Rank ==
    /\ pc = "rank"
    /\ result' = AsResult(TopFiltered(buzz_scores, domain, top_n))
    /\ pc' = "done"
    /\ UNCHANGED <<domain, top_n, env, ret, buzz_scores, hashSeed, last, invoked>>
    /\ UNCHANGED outsideAggregator

\* the call is over (returned or raised); its arguments and locals are gone
Return ==
    /\ pc \in {"done", "raised"}
    /\ pc' = "idle"
    /\ domain' = "movie"
    /\ top_n' = 0
    /\ env' = NoEnv
    /\ ret' = NoLocals
    /\ buzz_scores' = <<>>
    /\ result' = <<>>
    /\ invoked' = <<>>
    /\ UNCHANGED <<hashSeed, last>>
    /\ UNCHANGED outsideAggregator

Steps ==
    \/ MovieGoogleTrends \/ MovieReddit \/ MovieLetterboxd \/ MovieImdb
    \/ TvReddit \/ TvImdb \/ TvTrakt \/ TvLetterboxd \/ TvGoogleTrends
    \/ Rank

Next == Call \/ Steps \/ Return

Spec == Init /\ [][Next]_vars

(***************************************************************************)
(* A second specification: the same aggregator, observed over repeated     *)
(* calls.  A returned call is remembered in `last`; the next call gets the *)
(* same arguments and the same answers from every source.  Between two     *)
(* calls the process may be restarted (the pipeline is a script: each run  *)
(* is a new interpreter, with a new string-hash seed).                     *)
(***************************************************************************)
ReturnRemembered ==
    /\ pc \in {"done", "raised"}
    /\ last' = IF pc = "done"
               THEN [domain |-> domain, top_n |-> top_n, env |-> env, result |-> result]
               ELSE last
    /\ pc' = "idle"
    /\ domain' = "movie"
    /\ top_n' = 0
    /\ env' = NoEnv
    /\ ret' = NoLocals
    /\ buzz_scores' = <<>>
    /\ result' = <<>>
    /\ invoked' = <<>>
    /\ UNCHANGED hashSeed
    /\ UNCHANGED outsideAggregator

CallAgain ==
    /\ pc = "idle"
    /\ last # NoCall
    /\ domain' = last.domain
    /\ top_n' = last.top_n
    /\ env' = last.env
    /\ pc' = (IF last.domain = "movie" THEN "google" ELSE "reddit")
    /\ ret' = NoLocals
    /\ buzz_scores' = <<>>
    /\ result' = <<>>
    /\ invoked' = <<>>
    /\ UNCHANGED <<hashSeed, last>>
    /\ UNCHANGED outsideAggregator

Restart ==
    /\ pc = "idle"
    /\ hashSeed' \in HashSeeds \ {hashSeed}
    /\ UNCHANGED <<pc, domain, top_n, env, ret, buzz_scores, result, last, invoked>>
    /\ UNCHANGED outsideAggregator

NextRerun == Call \/ Steps \/ ReturnRemembered \/ CallAgain \/ Restart

SpecRerun == Init /\ [][NextRerun]_vars

(***************************************************************************)
(* A third specification: the Candidate Filter and the Title Extractor     *)
(* called directly on one text, as the scrapers call them.  The text is    *)
(* drawn from Texts; no aggregation call runs.                             *)
(***************************************************************************)
FilterTexts ==
    { "Up", "    ", "How I Met Your Mother", "Dune Part Two",
      "official trailer discussion", "The Help", "Showgirls Two",
      "Is This Thing On", "Can You Hear Me", "dune part two", "Dune part two",
      "One Two Three Four Five Six Seven Eight",
      "One Two Three Four Five Six Seven Eight Nine",
      "One Two Three Four Five Six Seven Eight Nine Ten",
      "One Two Three Four Five Six Seven Eight Nine Ten Eleven",
      "The Review", "Trailer Only Cut", "When Harry Met Sally",
      "Do The Right Thing", "The Bear", "Oppenheimer", "2 Fast 2 Furious",
      "la La", "Mr Aa", "A B" }

ExtractorTexts ==
    { "I just watched \"Oppenheimer\" last night",
      "The Bear - Season 3 Review",
      "random text with no pattern",
      "\"Dune Part Two\" Barbie (2023)",
      "Barbie (2023) [Discussion] Dune Part Two",
      "Past Lives [Review] Dune",
      "I loved Barbie Past Lives [Review",
      "Just watched Dune Part Two and loved it",
      "\"He said goodbye\" The Bear - Season 3",
      "\"Severance\" The Bear - Season 3",
      "[Breaking Bad] Severance S01E01",
      "[Breaking Bad] The Bear - Season 3",
      "Severance S01E01 Shogun 1x02",
      "We binged Shogun 1x02",
      "Severance (2022) review",
      "Shogun 1x02 [The Bear]",
      "The Bear ~ s3 finale",
      "'it' was fine" }

\* texts with a quoted part of each length around the limits of the quoted rule
QuotedTexts ==
    { "see \"Her\" now",
      "see \"Dune\" now",
      "see 'Dune' now",
      "see \"dune\" now",
      "see \"Dune Part Two' now",
      "heard \"She said yes\" today",
      "see \"Dune part two and the long road home again with mor\" now",
      "see \"Dune part two and the long road home again with more\" now",
      "see \"Dune part two and the long road home again with more to come\" now",
      "see \"Dune part two and the long road home again with more to comex\" now",
      "see \"Dune part two and the long road home again with more to come a\" now",
      "see \"it\" and \"Dune\" now" }

\* texts made of capitalized words only, around the limits of the generic rule
GenericTexts ==
    { "Abc Def",
      "Dune",
      "Abcd Efg",
      "Everything Everywhere Altogether Something Spectacular Today",
      "Everything Everywhere Altogether Something Spectacular Friday",
      "Everything Everywhere Altogether Something Spectacular Tomorrow Tonight Evermore",
      "Everything Everywhere Altogether Something Spectacular Tomorrow Evermore Evermore",
      "Everything Everywhere Altogether Something Else Now Tomorrow Yesterday" }

\* titles holding exclusion keywords of one analyst or of both
KeywordTexts ==
    { "The Official Trailer",
      "The Big Discussion",
      "The Big Question",
      "Megathread For Dune",
      "Dune Trailer Only",
      "Official Trailer Review Of Dune" }

Texts ==
    FilterTexts \cup ExtractorTexts \cup QuotedTexts \cup GenericTexts
        \cup KeywordTexts

InitText ==
    /\ pc = "idle"
    /\ domain = "movie"
    /\ top_n = 0
    /\ env = NoEnv
    /\ ret = NoLocals
    /\ buzz_scores = <<>>
    /\ result = <<>>
    /\ hashSeed \in HashSeeds
    /\ last = NoCall
    /\ invoked = <<>>
    /\ raw_text \in Texts
    /\ answer = NotCalled
    /\ PipelineIdle
    /\ HashnodeIdle
    /\ ReviewIdle
    /\ credentials = TRUE

\* the variables of the aggregation call
aggregatorVars ==
    <<pc, domain, top_n, env, ret, buzz_scores, result, hashSeed, last, invoked>>

\* TrendAnalyst._is_likely_movie(raw_text)
CallIsLikelyMovie ==
    /\ answer.fn = "none"
    /\ answer' = [fn |-> "_is_likely_movie", value |-> IsLikelyMovie(raw_text)]
    /\ UNCHANGED <<aggregatorVars, raw_text, pipelineVars, hashnodeVars, reviewVars>>

\* TVTrendAnalyst._is_likely_tv_show(raw_text)
CallIsLikelyTvShow ==
    /\ answer.fn = "none"
    /\ answer' = [fn |-> "_is_likely_tv_show", value |-> IsLikelyTvShow(raw_text)]
    /\ UNCHANGED <<aggregatorVars, raw_text, pipelineVars, hashnodeVars, reviewVars>>

\* TrendAnalyst._extract_movie_from_reddit(raw_text)
CallExtractMovieFromReddit ==
    /\ answer.fn = "none"
    /\ answer' = [fn |-> "_extract_movie_from_reddit", value |-> ExtractMovieFromReddit(raw_text)]
    /\ UNCHANGED <<aggregatorVars, raw_text, pipelineVars, hashnodeVars, reviewVars>>

\* TVTrendAnalyst._extract_show_from_reddit(raw_text)
CallExtractShowFromReddit ==
    /\ answer.fn = "none"
    /\ answer' = [fn |-> "_extract_show_from_reddit", value |-> ExtractShowFromReddit(raw_text)]
    /\ UNCHANGED <<aggregatorVars, raw_text, pipelineVars, hashnodeVars, reviewVars>>

\* TrendAnalyst._extract_movie_title(raw_text)
CallExtractMovieTitle ==
    /\ answer.fn = "none"
    /\ answer' = [fn |-> "_extract_movie_title", value |-> ExtractMovieTitle(raw_text)]
    /\ UNCHANGED <<aggregatorVars, raw_text, pipelineVars, hashnodeVars, reviewVars>>

\* TVTrendAnalyst._extract_show_title(raw_text)
CallExtractShowTitle ==
    /\ answer.fn = "none"
    /\ answer' = [fn |-> "_extract_show_title", value |-> ExtractShowTitle(raw_text)]
    /\ UNCHANGED <<aggregatorVars, raw_text, pipelineVars, hashnodeVars, reviewVars>>

NextText ==
    \/ CallIsLikelyMovie \/ CallIsLikelyTvShow
    \/ CallExtractMovieFromReddit \/ CallExtractShowFromReddit
    \/ CallExtractMovieTitle \/ CallExtractShowTitle

SpecText == InitText /\ [][NextText]_vars

(***************************************************************************)
(* A fourth specification: run_movie_review_pipeline choosing the item of  *)
(* each stage.  The ranked list comes from the aggregator (any list of at  *)
(* most MaxTrending titles), and every call to IMDb answers in one of the  *)
(* ways its function can: resolve_imdb_title_url returns a URL or None,    *)
(* get_movie_details returns a plot or re-raises the request's exception,  *)
(* get_trending_movie returns an item or None.  The review and the draft   *)
(* management of a chosen item are one step.                               *)
(***************************************************************************)
\* the titles analyze_trending_movies(top_n=5) may rank
Ranked == <<"Dune Part Two", "The Bear", "Past Lives", "Poor Things", "The Holdovers">>

\* the plot get_movie_details makes of a fetched page: the text of the plot
\* element (which may be empty), or "Plot not found." without that element
Plots == {"", "Plot not found.", "A chef returns home."}

\* one call of the stage: the function, the candidate it was made for (its
\* rank in `trending`, 0 for the authoritative fallback) and what it did
Made(fn, who, out) == [fn |-> fn, who |-> who, out |-> out]

\* the IMDb title URL of a title
UrlOf(title) == "https://www.imdb.com/title/" \o title

\* movie = {'title': ..., 'url': ..., 'buzz_score': ..., 'source': ...}
MovieItem(title, source) == [title |-> title, url |-> UrlOf(title), source |-> source]

\* if not movie or not details or not details.get('plot')
NothingUsable ==
    IF movie = None THEN TRUE
    ELSE IF details = None THEN TRUE
    ELSE details[1].plot = ""

\* for fallback in trending_movies[1:3]: where the loop stands with index a
AltStep(a) == IF a <= Min(3, Len(trending)) THEN "resolve_alt" ELSE "fallback"

\* after a stage: the TV stage follows the movie stage, then the completion
AfterStage == IF stage = "movie" THEN "analyze" ELSE "completed"

\* the dict publish_to_hashnode returns: its status and its draft_id
Returned(status, id) == [status |-> status, draft_id |-> id]

\* the draft-only test left out: every created draft is published
DraftOnlyNever(p) == FALSE

\* if not publish: return draft_created
DraftOnly(p) == ~p

otherThanPipeline == <<aggregatorVars, raw_text, answer, hashnodeVars, reviewVars>>

\* get_movie_details did `out`: when it raised, the exception leaves the
\* stage for the handler of the whole run
Escaped(out) ==
    IF out = "raised" THEN [outcome EXCEPT ![stage] = "raised"] ELSE outcome

\* run_movie_review_pipeline() is called
StartPipeline ==
    /\ step = "idle"
    /\ step' = "analyze"
    /\ entry' = "pipeline"
    /\ UNCHANGED <<stage, trending, alt, movie, details, calls, outcome>>
    /\ UNCHANGED <<store, review, submitted, decision, prompts, present>>
    /\ UNCHANGED otherThanPipeline

\* trending_movies = movie_analyst.analyze_trending_movies(top_n=5);
\* movie = None; details = None; if trending_movies: ...
AnalyzeTrending ==
    /\ step = "analyze"
    /\ \E n \in 0..MaxTrending :
          /\ trending' = Prefix(Ranked, n)
          /\ step' = IF n = 0 THEN "fallback" ELSE "resolve_top"
    /\ movie' = None
    /\ details' = None
    /\ calls' = <<>>
    /\ alt' = 0
    /\ UNCHANGED <<stage, outcome>>
    /\ UNCHANGED draftVars
    /\ UNCHANGED otherThanPipeline

\* the aggregator raises (create_scraper() of one of its scrapers): the
\* pipeline's except Exception ends the run
AnalyzeRaises ==
    /\ step = "analyze"
    /\ step' = "error"
    /\ outcome' = [outcome EXCEPT ![stage] = "raised"]
    /\ UNCHANGED <<stage, trending, alt, movie, details, calls>>
    /\ UNCHANGED draftVars
    /\ UNCHANGED otherThanPipeline

\* imdb_title_url = resolve_imdb_title_url(imdb_search_url, movie_title)
ResolveTop ==
    /\ step = "resolve_top"
    /\ \E out \in {"url", "none"} :
          /\ calls' = Append(calls, Made("resolve_imdb_title_url", 1, out))
          /\ IF out = "url"
             THEN /\ movie' = Some(MovieItem(trending[1], "trend_analysis"))
                  /\ step' = "details_top"
                  /\ alt' = alt
             ELSE /\ movie' = movie
                  /\ alt' = 2
                  /\ step' = AltStep(2)
    /\ UNCHANGED <<stage, trending, details, outcome>>
    /\ UNCHANGED draftVars
    /\ UNCHANGED otherThanPipeline

\* DetailsTop with a handler of its own around the stage: the exception ends
\* the stage, and the run goes on with the next one
DetailsTopCaughtInStage ==
    /\ step = "details_top"
    /\ \E out \in Plots \cup {"raised"} :
          /\ calls' = Append(calls, Made("get_movie_details", 1, out))
          /\ outcome' = Escaped(out)
          /\ IF out = "raised"
             THEN /\ step' = AfterStage
                  /\ stage' = "tv"
                  /\ UNCHANGED <<details, alt>>
             ELSE /\ details' = Some([plot |-> out])
                  /\ stage' = stage
                  /\ IF out = ""
                     THEN alt' = 2 /\ step' = AltStep(2)
                     ELSE alt' = alt /\ step' = "fallback"
    /\ UNCHANGED <<trending, movie>>
    /\ UNCHANGED draftVars
    /\ UNCHANGED otherThanPipeline

\* details = get_movie_details(movie['url']), then
\* if not details or not details.get('plot'): <try the alternatives>
DetailsTop ==
    /\ step = "details_top"
    /\ \E out \in Plots \cup {"raised"} :
          /\ calls' = Append(calls, Made("get_movie_details", 1, out))
          /\ outcome' = Escaped(out)
          /\ IF out = "raised"
             THEN /\ step' = "error"
                  /\ UNCHANGED <<details, alt>>
             ELSE /\ details' = Some([plot |-> out])
                  /\ IF out = ""
                     THEN alt' = 2 /\ step' = AltStep(2)
                     ELSE alt' = alt /\ step' = "fallback"
    /\ UNCHANGED <<stage, trending, movie>>
    /\ UNCHANGED draftVars
    /\ UNCHANGED otherThanPipeline

\* fallback_title_url = resolve_imdb_title_url(fallback_search_url, fallback['title'])
ResolveAlt ==
    /\ step = "resolve_alt"
    /\ \E out \in {"url", "none"} :
          /\ calls' = Append(calls, Made("resolve_imdb_title_url", alt, out))
          /\ IF out = "url"
             THEN step' = "details_alt" /\ alt' = alt
             ELSE alt' = alt + 1 /\ step' = AltStep(alt + 1)
    /\ UNCHANGED <<stage, trending, movie, details, outcome>>
    /\ UNCHANGED draftVars
    /\ UNCHANGED otherThanPipeline

\* details = get_movie_details(fallback_title_url);
\* if details and details.get('plot'): movie = {...}; break
DetailsAlt ==
    /\ step = "details_alt"
    /\ \E out \in Plots \cup {"raised"} :
          /\ calls' = Append(calls, Made("get_movie_details", alt, out))
          /\ outcome' = Escaped(out)
          /\ IF out = "raised"
             THEN /\ step' = "error"
                  /\ UNCHANGED <<details, movie, alt>>
             ELSE /\ details' = Some([plot |-> out])
                  /\ IF out = ""
                     THEN /\ movie' = movie
                          /\ alt' = alt + 1
                          /\ step' = AltStep(alt + 1)
                     ELSE /\ movie' = Some(MovieItem(trending[alt], "trend_analysis"))
                          /\ alt' = alt
                          /\ step' = "fallback"
    /\ UNCHANGED <<stage, trending>>
    /\ UNCHANGED draftVars
    /\ UNCHANGED otherThanPipeline

\* if not movie or not details or not details.get('plot'): is false
SkipFallback ==
    /\ step = "fallback"
    /\ ~NothingUsable
    /\ step' = "process"
    /\ UNCHANGED <<stage, trending, alt, movie, details, calls, outcome>>
    /\ UNCHANGED draftVars
    /\ UNCHANGED otherThanPipeline

\* imdb_movie = get_trending_movie(); if imdb_movie: movie = {...}
GetTrending ==
    /\ step = "fallback"
    /\ NothingUsable
    /\ \E out \in {"item", "none"} :
          /\ calls' = Append(calls, Made("get_trending_movie", 0, out))
          /\ IF out = "item"
             THEN /\ movie' = Some(MovieItem("Top Of The Chart", "imdb_fallback"))
                  /\ step' = "details_fallback"
             ELSE /\ movie' = movie
                  /\ step' = "process"
    /\ UNCHANGED <<stage, trending, alt, details, outcome>>
    /\ UNCHANGED draftVars
    /\ UNCHANGED otherThanPipeline

\* details = get_movie_details(movie['url']) for the fallback item
DetailsFallback ==
    /\ step = "details_fallback"
    /\ \E out \in Plots \cup {"raised"} :
          /\ calls' = Append(calls, Made("get_movie_details", 0, out))
          /\ outcome' = Escaped(out)
          /\ IF out = "raised"
             THEN step' = "error" /\ UNCHANGED details
             ELSE details' = Some([plot |-> out]) /\ step' = "process"
    /\ UNCHANGED <<stage, trending, alt, movie>>
    /\ UNCHANGED draftVars
    /\ UNCHANGED otherThanPipeline

\* what generate_review / generate_show_review may return: the text of the
\* completion, or a "[REVIEW ERROR] ..." text when the request failed
Reviews ==
    {"A sharp, funny film. Rating: 4 of 5.",
     "[REVIEW ERROR] Groq request failed: no completion returned"}

\* publish=True whatever the entry point
AlwaysPublish == TRUE

\* publish=False of the pipeline's two calls, of the web entry point; and
\* publish=True of the command-line entry point
PipelinePublish == FALSE
WebPublish      == FALSE
CliPublish      == TRUE

\* what one call publish_to_hashnode(title, review, publish=p) may come to:
\* the dict it returns and whether it posted a publishDraft mutation.  It
\* returns skipped without credentials, error when no createDraft answer
\* holds an id, draft_created with the id when only a draft is wanted;
\* otherwise it submitted publishDraft and returns success with the draft id, or
\* an error
PublishCalls(p) ==
    {[returned |-> Returned("skipped", None), publishDraft |-> FALSE],
     [returned |-> Returned("error", None), publishDraft |-> FALSE]}
    \cup (IF DraftOnly(p)
          THEN {[returned |-> Returned("draft_created", Some("d7")),
                 publishDraft |-> FALSE]}
          ELSE {[returned |-> Returned("success", Some("d7")), publishDraft |-> TRUE],
                [returned |-> Returned("error", None), publishDraft |-> TRUE]})

\* one call of publish_to_hashnode by the run
Post(by, title, text, p, call) ==
    [by |-> by, title |-> title, review |-> text, publish |-> p,
     returned |-> call.returned, publishDraft |-> call.publishDraft]

\* if last_movie and (last item's title == movie['title'] or
\*                    last item's url == movie['url'])
SameItem(last_movie, item) ==
    IF last_movie = None THEN FALSE
    ELSE \/ last_movie[1].item.title = item.title
         \/ last_movie[1].item.url = item.url

\* draft_exists(draft_id): False without an id, else what Hashnode answers
\* (False too when the request fails)
DraftExists(id, answers) == id # "" /\ id \in answers

\* the value of skip_movie after the duplicate check.  An exception inside
\* the try block leaves skip_movie False (except: pass)
SkipDraft(last_movie, item, answers) ==
    IF ~SameItem(last_movie, item) THEN FALSE
    ELSE LET ts_dt == FromIsoformat(last_movie[1].timestamp)
             age   == NowUtcMinus(ts_dt)
         IN  IF age = None THEN FALSE
             ELSE /\ age[1] < 7
                  /\ last_movie[1].draft_id # ""
                  /\ DraftExists(last_movie[1].draft_id, answers)

\* PHASE 3: review = generate_review(movie['title'], details.get('plot', ''),
\* source_url=movie.get('url'))
GenerateReview ==
    /\ step = "process"
    /\ ~NothingUsable
    /\ review' \in Reviews
    /\ step' = "draft"
    /\ UNCHANGED <<stage, trending, alt, movie, details, calls, outcome>>
    /\ UNCHANGED <<entry, store, submitted, decision, prompts, present>>
    /\ UNCHANGED otherThanPipeline

\* DraftManagement sending no draft of a review that reports an error
DraftManagementInspecting ==
    /\ step = "draft"
    /\ \E call \in PublishCalls(PipelinePublish) :
          IF SkipDraft(GetLastDraft(store, stage), movie[1], present)
          THEN /\ outcome' = [outcome EXCEPT ![stage] = "skipped"]
               /\ UNCHANGED <<submitted, store>>
          ELSE IF SubSeq(review, 1, 14) = "[REVIEW ERROR]"
          THEN /\ outcome' = [outcome EXCEPT ![stage] = "no_draft"]
               /\ UNCHANGED <<submitted, store>>
          ELSE /\ submitted' = Append(submitted, Post(stage, movie[1].title, review,
                                              PipelinePublish, call))
               /\ IF call.returned.draft_id # None
                  THEN /\ store' = SaveLastDraft(store, movie[1],
                                                 call.returned.draft_id[1], stage)
                       /\ outcome' = [outcome EXCEPT ![stage] = "drafted"]
                  ELSE /\ store' = store
                       /\ outcome' = [outcome EXCEPT ![stage] = "no_draft"]
    /\ review' = ""
    /\ step' = AfterStage
    /\ stage' = "tv"
    /\ UNCHANGED <<trending, alt, movie, details, calls>>
    /\ UNCHANGED <<entry, decision, prompts, present>>
    /\ UNCHANGED otherThanPipeline

\* PHASE 4: last_movie = get_last_draft(kind); the duplicate check; if not
\* skip_movie: draft_res = publish_to_hashnode(title, review, publish=False);
\* if draft_res and draft_res.get('draft_id'): save_last_draft(movie, id, kind)
DraftManagement ==
    /\ step = "draft"
    /\ \E call \in PublishCalls(PipelinePublish) :
          IF SkipDraft(GetLastDraft(store, stage), movie[1], present)
          THEN /\ outcome' = [outcome EXCEPT ![stage] = "skipped"]
               /\ UNCHANGED <<submitted, store>>
          ELSE /\ submitted' = Append(submitted, Post(stage, movie[1].title, review,
                                              PipelinePublish, call))
               /\ IF call.returned.draft_id # None
                  THEN /\ store' = SaveLastDraft(store, movie[1],
                                                 call.returned.draft_id[1], stage)
                       /\ outcome' = [outcome EXCEPT ![stage] = "drafted"]
                  ELSE /\ store' = store
                       /\ outcome' = [outcome EXCEPT ![stage] = "no_draft"]
    /\ review' = ""
    /\ step' = AfterStage
    /\ stage' = "tv"
    /\ UNCHANGED <<trending, alt, movie, details, calls>>
    /\ UNCHANGED <<entry, decision, prompts, present>>
    /\ UNCHANGED otherThanPipeline

\* else: print("Movie pipeline failed")
StageFailed ==
    /\ step = "process"
    /\ NothingUsable
    /\ outcome' = [outcome EXCEPT ![stage] = "failed"]
    /\ step' = AfterStage
    /\ stage' = "tv"
    /\ UNCHANGED <<trending, alt, movie, details, calls>>
    /\ UNCHANGED draftVars
    /\ UNCHANGED otherThanPipeline

(***************************************************************************)
(* workflow.py: the two single-movie entry points.  Neither has a handler: *)
(* an exception of get_movie_details leaves the function (step "raised").  *)
(***************************************************************************)
\* what the operator may type at "Approve this review for publishing? (y/n): "
Decisions == {"y", "Y", " y ", "  Y", "n", "N", "yes", "y y", ""}

\* Approved taking every answer that starts with y
ApprovedLoosely(typed) ==
    Lower(Strip(typed)) # "" /\ Head(Lower(Strip(typed))) = "y"

\* decision = input(...).strip().lower(); decision == "y"
Approved(typed) == Lower(Strip(typed)) = "y"

\* run_once_with_cli_approval() / run_once_for_web_approval() is called
StartWorkflow ==
    /\ step = "idle"
    /\ entry' \in {"cli", "web"}
    /\ step' = "trending"
    /\ UNCHANGED <<stage, trending, alt, movie, details, calls, outcome>>
    /\ UNCHANGED <<store, review, submitted, decision, prompts, present>>
    /\ UNCHANGED otherThanPipeline

\* movie = get_trending_movie(); if not movie: return
WorkflowTrending ==
    /\ step = "trending"
    /\ \E out \in {"item", "none"} :
          /\ calls' = Append(calls, Made("get_trending_movie", 0, out))
          /\ IF out = "item"
             THEN /\ movie' = Some(MovieItem("Top Of The Chart", "imdb"))
                  /\ step' = "details"
             ELSE /\ movie' = movie
                  /\ step' = "returned"
    /\ UNCHANGED <<stage, trending, alt, details, outcome>>
    /\ UNCHANGED draftVars
    /\ UNCHANGED otherThanPipeline

\* details = get_movie_details(movie["url"]);
\* review = generate_review(movie["title"], details["plot"])
WorkflowReview ==
    /\ step = "details"
    /\ \E out \in Plots \cup {"raised"} :
          /\ calls' = Append(calls, Made("get_movie_details", 0, out))
          /\ IF out = "raised"
             THEN /\ step' = "raised"
                  /\ UNCHANGED <<details, review>>
             ELSE /\ details' = Some([plot |-> out])
                  /\ review' \in Reviews
                  /\ step' = IF entry = "cli" THEN "approval" ELSE "publish"
    /\ UNCHANGED <<stage, trending, alt, movie, outcome>>
    /\ UNCHANGED <<entry, store, submitted, decision, prompts, present>>
    /\ UNCHANGED otherThanPipeline

\* decision = input("Approve this review for publishing? (y/n): ")
\*               .strip().lower(); if decision != "y": return
Approval ==
    /\ step = "approval"
    /\ \E typed \in Decisions :
          /\ decision' = typed
          /\ step' = IF Approved(typed) THEN "publish" ELSE "returned"
    /\ UNCHANGED <<stage, trending, alt, movie, details, calls, outcome>>
    /\ UNCHANGED <<entry, store, review, submitted, prompts, present>>
    /\ UNCHANGED otherThanPipeline

\* result = publish_to_hashnode(movie["title"], review, publish=...);
\* prompt = build_video_prompt(movie["title"], review);
\* prompt_path = append_prompt_to_excel(prompt)
WorkflowPublish ==
    /\ step = "publish"
    /\ LET p == IF entry = "cli" THEN CliPublish ELSE WebPublish
       IN  \E call \in PublishCalls(p) :
              submitted' = Append(submitted, Post(entry, movie[1].title, review, p, call))
    /\ prompts' = Append(prompts, [title |-> movie[1].title, review |-> review])
    /\ step' = "returned"
    /\ UNCHANGED <<stage, trending, alt, movie, details, calls, outcome>>
    /\ UNCHANGED <<entry, store, review, decision, present>>
    /\ UNCHANGED otherThanPipeline

NextPipeline ==
    \/ StartPipeline \/ AnalyzeTrending \/ AnalyzeRaises
    \/ ResolveTop \/ DetailsTop \/ ResolveAlt \/ DetailsAlt
    \/ SkipFallback \/ GetTrending \/ DetailsFallback
    \/ GenerateReview \/ DraftManagement \/ StageFailed
    \/ StartWorkflow \/ WorkflowTrending \/ WorkflowReview
    \/ Approval \/ WorkflowPublish

\* the records last_draft.json may hold from earlier runs: a draft of the top
\* title made 2 days ago, one made 9 days ago, one of the same URL under
\* another title, one saved without a draft id, and one of the chart's top
DuneItem    == MovieItem("Dune Part Two", "trend_analysis")
RecentDune  == DraftRecord(DuneItem, "d1", Today - 2)
OldDune     == DraftRecord(DuneItem, "d1", Today - 9)
RenamedDune == DraftRecord([DuneItem EXCEPT !.title = "Dune: Part Two"], "d1", Today - 2)
NoIdDune    == DraftRecord(DuneItem, "", Today - 2)
RecentChart == DraftRecord(MovieItem("Top Of The Chart", "imdb_fallback"), "d3", Today - 1)

Stores ==
    {NoFile, UnreadableFile,
     DictFile([movie |-> Some(RecentDune), tv |-> None]),
     DictFile([movie |-> Some(OldDune), tv |-> Some(RecentDune)]),
     DictFile([movie |-> Some(RenamedDune), tv |-> Some(NoIdDune)]),
     DictFile([movie |-> None, tv |-> Some(RecentChart)])}

InitPipeline ==
    /\ pc = "idle"
    /\ domain = "movie"
    /\ top_n = 0
    /\ env = NoEnv
    /\ ret = NoLocals
    /\ buzz_scores = <<>>
    /\ result = <<>>
    /\ hashSeed \in HashSeeds
    /\ last = NoCall
    /\ invoked = <<>>
    /\ raw_text = ""
    /\ answer = NotCalled
    /\ PipelineLocalsIdle
    /\ store \in Stores
    /\ present \in {{}, {"d1", "d3"}}
    /\ HashnodeIdle
    /\ ReviewIdle
    /\ credentials = TRUE

SpecPipeline == InitPipeline /\ [][NextPipeline]_vars

(***************************************************************************)
(* A fifth specification: publish_to_hashnode.  The credentials are read   *)
(* from the environment when the module is loaded; each request is         *)
(* answered in one of the ways the GraphQL endpoint and `requests` can.    *)
(***************************************************************************)
candidate_fields == <<"contentMarkdown", "body", "content", "bodyMarkdown">>

\* requests.post raised (connection error, timeout)
PostRaises == [kind |-> "raised", status |-> 0, id |-> ""]

\* a response with status st whose JSON holds the id `id` ("" if it holds none)
Reply(st, id) == [kind |-> "reply", status |-> st, id |-> id]

\* a 200 response whose JSON is {"data": null, "errors": [...]} or is not JSON:
\* reading it raises inside the try block
Unreadable == [kind |-> "unreadable", status |-> 200, id |-> ""]

Answers ==
    {PostRaises, Unreadable, Reply(500, ""), Reply(500, "d9"), Reply(200, ""),
     Reply(200, "d1"), Reply(200, "d2")}

\* one posted request and its answer
Posted(mutation, name, resp) == [mutation |-> mutation, field |-> name, resp |-> resp]

otherThanHashnode == <<aggregatorVars, raw_text, answer, pipelineVars, reviewVars>>

InitHashnode ==
    /\ pc = "idle"
    /\ domain = "movie"
    /\ top_n = 0
    /\ env = NoEnv
    /\ ret = NoLocals
    /\ buzz_scores = <<>>
    /\ result = <<>>
    /\ hashSeed \in HashSeeds
    /\ last = NoCall
    /\ invoked = <<>>
    /\ raw_text = ""
    /\ answer = NotCalled
    /\ PipelineIdle
    /\ HashnodeIdle
    /\ ReviewIdle
    /\ credentials \in BOOLEAN

\* publish_to_hashnode(movie_title, review_content, publish) is called:
\* if not all([HN_PUBLICATION_ID, HN_ACCESS_TOKEN]): return skipped
CallPublish ==
    /\ hn_pc = "idle"
    /\ returned = NoReturn
    /\ publish' \in BOOLEAN
    /\ IF credentials
       THEN /\ hn_pc' = "create"
            /\ field' = 1
            /\ returned' = returned
       ELSE /\ hn_pc' = "returned"
            /\ field' = field
            /\ returned' = Returned("skipped", None)
    /\ sent' = <<>>
    /\ draft_id' = None
    /\ UNCHANGED credentials
    /\ UNCHANGED otherThanHashnode

\* one turn of `for field in candidate_fields`, and what follows the loop
\* when it ends with this turn
CreateDraft ==
    /\ hn_pc = "create"
    /\ \E resp \in Answers :
          /\ sent' = Append(sent, Posted("createDraft", candidate_fields[field], resp))
          /\ CASE resp.kind # "reply" ->
                    \* except Exception as e: return error
                    /\ returned' = Returned("error", None)
                    /\ hn_pc' = "returned"
                    /\ UNCHANGED <<field, draft_id>>
               [] resp.kind = "reply" /\ (resp.status # 200 \/ resp.id = "") ->
                    \* continue, or no id: the next field; after the last
                    \* one: if not draft_id: return error
                    /\ draft_id' = (IF resp.status # 200 THEN draft_id ELSE None)
                    /\ IF field < Len(candidate_fields)
                       THEN /\ field' = field + 1
                            /\ UNCHANGED <<hn_pc, returned>>
                       ELSE /\ returned' = Returned("error", None)
                            /\ hn_pc' = "returned"
                            /\ field' = field
               [] OTHER ->
                    \* if draft_id: break; if not publish: return draft_created
                    /\ draft_id' = Some(resp.id)
                    /\ field' = field
                    /\ IF DraftOnly(publish)
                       THEN /\ hn_pc' = "returned"
                            /\ returned' = Returned("draft_created", Some(resp.id))
                       ELSE /\ hn_pc' = "publish"
                            /\ returned' = returned
    /\ UNCHANGED <<credentials, publish>>
    /\ UNCHANGED otherThanHashnode

\* STEP 2: the publishDraft mutation for draft_id
PublishDraft ==
    /\ hn_pc = "publish"
    /\ \E resp \in Answers :
          /\ sent' = Append(sent, Posted("publishDraft", "id", resp))
          /\ returned' = IF resp.kind = "reply" /\ resp.status = 200 /\ resp.id # ""
                         THEN Returned("success", draft_id)
                         ELSE Returned("error", None)
    /\ hn_pc' = "returned"
    /\ UNCHANGED <<credentials, publish, field, draft_id>>
    /\ UNCHANGED otherThanHashnode

NextHashnode == CallPublish \/ CreateDraft \/ PublishDraft

SpecHashnode == InitHashnode /\ [][NextHashnode]_vars

(***************************************************************************)
(* A sixth specification: one call of generate_review or of                *)
(* generate_show_review.  GROQ_MODEL holds any list of at most MaxModels   *)
(* model names; every completion request succeeds or fails in one of the   *)
(* ways the loop tells apart.  The call runs to its end once started: the  *)
(* specification has weak fairness on its steps.                           *)
(***************************************************************************)
MaxModels == 2

\* RECOMMENDED_MODEL, and another model name
RECOMMENDED_MODEL == "llama-3.3-70b-versatile"
ModelNames == {"mixtral-8x7b-32768", RECOMMENDED_MODEL}

\* [m.strip() for m in (GROQ_MODEL or "").split(",") if m.strip()]
ConfiguredLists ==
    UNION {[1..n -> ModelNames] : n \in 0..MaxModels}

\* what groq_client.chat.completions.create(model=...) may do: return a
\* completion whose content reads, or one whose content does not; raise
\* BadRequestError with or without "decommissioned" in its message,
\* NotFoundError, AuthenticationError, or another exception
Outcomes ==
    {"completion", "blank", "no_content", "decommissioned", "bad_request", "not_found",
     "authentication", "other"}

otherThanReview == <<aggregatorVars, raw_text, answer, pipelineVars, hashnodeVars>>

InitReview ==
    /\ pc = "idle"
    /\ domain = "movie"
    /\ top_n = 0
    /\ env = NoEnv
    /\ ret = NoLocals
    /\ buzz_scores = <<>>
    /\ result = <<>>
    /\ hashSeed \in HashSeeds
    /\ last = NoCall
    /\ invoked = <<>>
    /\ raw_text = ""
    /\ answer = NotCalled
    /\ PipelineIdle
    /\ HashnodeIdle
    /\ credentials = TRUE
    /\ gen \in [fn : {"generate_review", "generate_show_review"},
                groq_client : BOOLEAN,
                configured : ConfiguredLists]
    /\ gr_pc = "idle"
    /\ models = <<>>
    /\ tried = <<>>
    /\ generated = None

\* the text returned without a Groq client
Template(fn) ==
    IF fn = "generate_review" THEN "## Title - AI Movie Review"
    ELSE "## Title - AI TV Review"

\* the recommended model is appended on every decommissioned model
AppendsOnDecommissioned(out, ms) == out = "decommissioned"

\* if ("decommissioned" in msg or "model_decommissioned" in msg)
\*    and RECOMMENDED_MODEL not in models
AppendsRecommended(out, ms) ==
    /\ out = "decommissioned"
    /\ \A i \in 1..Len(ms) : ms[i] # RECOMMENDED_MODEL

\* the string an except clause of the loop returns for the model
ReviewError(out, model) ==
    IF out \in {"decommissioned", "bad_request"}
    THEN "[REVIEW ERROR] Groq request failed: BadRequest (" \o model \o ")"
    ELSE IF out = "authentication"
    THEN "[REVIEW ERROR] Groq authentication failed: check GROQ_API_KEY"
    ELSE "[REVIEW ERROR] Groq request failed: RateLimitError"

\* generate_review(title, plot, source_url) / generate_show_review(...) is
\* called: without a client the template is returned; else the list of
\* models is read from GROQ_MODEL
CallGenerate ==
    /\ gr_pc = "idle"
    /\ generated = None
    /\ IF gen.groq_client
       THEN /\ models' = IF gen.configured = <<>> THEN <<RECOMMENDED_MODEL>>
                         ELSE gen.configured
            /\ gr_pc' = "loop"
            /\ generated' = generated
       ELSE /\ generated' = Some(Template(gen.fn))
            /\ gr_pc' = "returned"
            /\ models' = models
    /\ UNCHANGED <<gen, tried>>
    /\ UNCHANGED otherThanReview

\* one turn of `for model in models:` (the list may have grown since the
\* loop started): the completion request and its except clauses
Completion ==
    /\ gr_pc = "loop"
    /\ Len(tried) < Len(models)
    /\ LET model == models[Len(tried) + 1]
       IN  \E out \in Outcomes :
              /\ tried' = Append(tried, [model |-> model, out |-> out])
              /\ CASE out \in {"completion", "blank", "no_content"} ->
                        \* break
                        /\ gr_pc' = "parse"
                        /\ UNCHANGED <<models, generated>>
                   [] AppendsRecommended(out, models) ->
                        \* models.append(RECOMMENDED_MODEL); continue
                        /\ models' = Append(models, RECOMMENDED_MODEL)
                        /\ UNCHANGED <<gr_pc, generated>>
                   [] out = "not_found" ->
                        \* continue
                        UNCHANGED <<gr_pc, models, generated>>
                   [] OTHER ->
                        /\ generated' = Some(ReviewError(out, model))
                        /\ gr_pc' = "returned"
                        /\ models' = models
    /\ UNCHANGED gen
    /\ UNCHANGED otherThanReview

\* the loop ran through the list: if completion is None: return the error
Exhausted ==
    /\ gr_pc = "loop"
    /\ Len(tried) = Len(models)
    /\ generated' = Some("[REVIEW ERROR] Groq request failed: no completion returned")
    /\ gr_pc' = "returned"
    /\ UNCHANGED <<gen, models, tried>>
    /\ UNCHANGED otherThanReview

\* try: return completion.choices[0].message.content.strip()
\* except Exception: return the parse error
ParseCompletion ==
    /\ gr_pc = "parse"
    /\ generated' = CASE tried[Len(tried)].out = "completion" ->
                             Some(Strip("  A sharp, funny film. Rating: 4 of 5.\n"))
                      [] tried[Len(tried)].out = "blank" -> Some(Strip(" \n"))
                      [] OTHER ->
                             Some("[REVIEW ERROR] Failed to parse Groq response")
    /\ gr_pc' = "returned"
    /\ UNCHANGED <<gen, models, tried>>
    /\ UNCHANGED otherThanReview

NextReview == CallGenerate \/ Completion \/ Exhausted \/ ParseCompletion

SpecReview == InitReview /\ [][NextReview]_vars /\ WF_vars(NextReview)

(***************************************************************************)
(* Properties.                                                             *)
(***************************************************************************)
\* What one call reads from its sources, in the order of the code: every
\* item of the two dict sources with weight x multiplier, and the first k
\* items of each list source with the fixed weight of that source.
DictPoints(d, mult) == [i \in 1..Len(d) |-> Item(d[i].title, d[i].score * mult)]

ListPoints(l, k, w) == [i \in 1..Min(k, Len(l)) |-> Item(l[i], w)]

Contributions(d, r) ==
    IF d = "movie"
    THEN DictPoints(r.google, 4) \o DictPoints(r.reddit, 2)
         \o ListPoints(r.letterboxd, 8, 15) \o ListPoints(r.imdb, 5, 12)
    ELSE DictPoints(r.reddit, 3) \o ListPoints(r.imdb, 8, 20)
         \o ListPoints(r.trakt, 10, 15) \o ListPoints(r.letterboxd, 8, 12)
         \o DictPoints(r.google, 2)

RECURSIVE SumFor(_, _)
SumFor(items, t) ==
    IF items = <<>> THEN 0
    ELSE (IF Head(items).title = t THEN Head(items).score ELSE 0)
         + SumFor(Tail(items), t)

TitlesOf(items) == {items[i].title : i \in 1..Len(items)}

AllEmpty(r) ==
    /\ r.google = <<>> /\ r.reddit = <<>> /\ r.letterboxd = <<>>
    /\ r.imdb = <<>> /\ r.trakt = <<>>

\* positions of buzz_scores inside the 3 x top_n window whose title passes
\* the Candidate Filter
PassingInWindow ==
    {j \in 1..Len(buzz_scores) :
        /\ RankOf(buzz_scores, j) <= 3 * top_n
        /\ IsLikely(domain, buzz_scores[j].title)}

\* C1: a returned list has at most top_n entries, its buzz_score values do
\* not increase along the list, and no title occurs twice.
C1_BoundedSortedDistinct ==
    pc = "done" =>
        /\ Len(result) <= top_n
        /\ \A i, j \in 1..Len(result) :
              i < j => /\ result[i].buzz_score >= result[j].buzz_score
                       /\ result[i].title # result[j].title

\* C1 witness: a call returned top_n = 2 entries of different scores while
\* more titles had been accumulated and passed the filter.
C1_Witness ==
    /\ pc = "done" /\ top_n = 2 /\ Len(result) = 2
    /\ result[1].buzz_score > result[2].buzz_score
    /\ Cardinality(PassingInWindow) > 2

\* C2: the aggregator never raises: whatever its sources do, the call ends
\* by returning.
C2_NeverRaises == pc # "raised"

\* C3: if every scraper of the call returned an empty result, the call
\* returns the empty list.
C3_AllEmptyGivesEmpty ==
    (pc = "done" /\ AllEmpty(ret)) => result = <<>>

\* C3 witness: a call with top_n > 0 returned after every source had come
\* back empty, one of them because its request failed.
C3_Witness ==
    /\ pc = "done" /\ top_n > 0 /\ AllEmpty(ret)
    /\ domain = "tv" /\ env.trakt = NetError /\ env.imdb.status = 503
    /\ env.reddit.kind = "http" /\ env.google = NetError

\* C4: the accumulated score of every title is the sum of weight x
\* multiplier over the occurrences of exactly that title among the items
\* read from the sources (for a list source, the first k items of its list).
C4_ScoreIsSumOfContributions ==
    LET items == Contributions(domain, ret)
    IN  \A t \in Keys(buzz_scores) \cup TitlesOf(items) :
            Get(buzz_scores, t) = SumFor(items, t)

\* C4 witness: "Dune" came with weight 10 from the x4 source and weight 5
\* from the x2 source and from nowhere else, and its score is 50.
C4_Witness ==
    /\ pc = "rank" /\ domain = "movie"
    /\ ret.google = <<Item("Dune", 10)>> /\ ret.reddit = <<Item("Dune", 5)>>
    /\ ret.letterboxd = <<>> /\ ret.imdb = <<>>
    /\ Get(buzz_scores, "Dune") = 50

\* the scenario of C5: the stubs of the three sources, the fourth empty
C5_Scenario ==
    /\ pc = "done" /\ domain = "movie" /\ top_n = 2
    /\ env.google = Stub(<<Item("Oppenheimer", 1)>>)
    /\ env.reddit = Stub(<<Item("Oppenheimer", 1), Item("Barbie", 1)>>)
    /\ env.letterboxd = Stub(<<"Oppenheimer">>)
    /\ ret.imdb = <<>>

\* C5 as claimed: in the scenario the call returns Oppenheimer with score 21
\* at rank 1 and Barbie with score 2 at rank 2.
C5_AsClaimed ==
    C5_Scenario =>
        result = << [title |-> "Oppenheimer", buzz_score |-> 21],
                    [title |-> "Barbie", buzz_score |-> 2] >>

\* C5 amended: in the scenario the accumulated scores are Oppenheimer 21 and
\* Barbie 2, in this order, and the returned list is empty: both titles are
\* single words and fail the Candidate Filter.
C5_ScoresButEmptyResult ==
    C5_Scenario =>
        /\ buzz_scores = <<Item("Oppenheimer", 21), Item("Barbie", 2)>>
        /\ ~IsLikelyMovie("Oppenheimer") /\ ~IsLikelyMovie("Barbie")
        /\ result = <<>>

\* C5 witness: the scenario has run to its return.
C5_Witness == C5_Scenario /\ Len(buzz_scores) = 2

\* C6: every title of a returned list passes the Candidate Filter of the
\* call's domain.
C6_ResultPassesFilter ==
    pc = "done" =>
        \A i \in 1..Len(result) : IsLikely(domain, result[i].title)

\* C6 witness: a list source put a title that fails the filter above the
\* titles that were returned.
C6_Witness ==
    /\ pc = "done" /\ result # <<>>
    /\ \E j \in 1..Len(buzz_scores) :
          /\ ~IsLikely(domain, buzz_scores[j].title)
          /\ buzz_scores[j].score > result[1].buzz_score
          /\ \E i \in 1..Len(ret.letterboxd) :
                ret.letterboxd[i] = buzz_scores[j].title

\* C7: the returned list is the first top_n filter-passing titles of the
\* 3 x top_n best-ranked accumulated titles, in rank order, and holds no
\* title ranked below position 3 x top_n.
C7_FirstPassingOfWindow ==
    pc = "done" =>
        /\ Len(result) = Min(top_n, Cardinality(PassingInWindow))
        /\ \A k \in 1..Len(result) :
              \E j \in PassingInWindow :
                 /\ result[k].title = buzz_scores[j].title
                 /\ result[k].buzz_score = buzz_scores[j].score
                 /\ Cardinality({m \in PassingInWindow :
                        RankOf(buzz_scores, m) < RankOf(buzz_scores, j)}) = k - 1

\* C7 witness: fewer than top_n titles were returned although a title ranked
\* below the window passes the filter.
C7_Witness ==
    /\ pc = "done" /\ top_n > 0 /\ Len(result) < top_n
    /\ \E j \in 1..Len(buzz_scores) :
          /\ RankOf(buzz_scores, j) > 3 * top_n
          /\ IsLikely(domain, buzz_scores[j].title)

\* C8: titles are inserted in the order in which the sources yield them, and
\* of two titles with the same score the one inserted first is ranked first:
\* it is in the 3 x top_n window whenever the other is, and precedes it in
\* the window and in the returned list.
C8_TiesByInsertionOrder ==
    LET window == MostCommon(buzz_scores, 3 * top_n)
        Pos(seq, t) == CHOOSE k \in 1..Len(seq) : seq[k].title = t
        first == Distinct([i \in 1..Len(Contributions(domain, ret)) |->
                              Contributions(domain, ret)[i].title])
    IN  /\ [i \in 1..Len(buzz_scores) |-> buzz_scores[i].title] = first
        /\ pc \in {"rank", "done"} =>
             \A i, j \in 1..Len(buzz_scores) :
                (i < j /\ buzz_scores[i].score = buzz_scores[j].score) =>
                   /\ buzz_scores[j].title \in TitlesOf(window) =>
                         /\ buzz_scores[i].title \in TitlesOf(window)
                         /\ Pos(window, buzz_scores[i].title)
                               < Pos(window, buzz_scores[j].title)
                   /\ (pc = "done"
                       /\ buzz_scores[i].title \in TitlesOf(result)
                       /\ buzz_scores[j].title \in TitlesOf(result)) =>
                         Pos(result, buzz_scores[i].title)
                            < Pos(result, buzz_scores[j].title)

\* C8 witness: the last returned title has the score of another title that
\* passes the filter, was inserted later and fell outside the window.
C8_Witness ==
    /\ pc = "done" /\ result # <<>>
    /\ \E i, j \in 1..Len(buzz_scores) :
          /\ i < j
          /\ buzz_scores[i].title = result[Len(result)].title
          /\ buzz_scores[j].score = buzz_scores[i].score
          /\ IsLikely(domain, buzz_scores[j].title)
          /\ RankOf(buzz_scores, j) > 3 * top_n

\* C9: a call that gets the arguments and the source answers of an earlier
\* call returns the list the earlier call returned.
C9_SameAnswersSameResult ==
    (/\ pc = "done" /\ last # NoCall
     /\ domain = last.domain /\ top_n = last.top_n /\ env = last.env)
        => result = last.result

\* C10: while a call runs, no step removes a title from buzz_scores or
\* lowers its score.
C10_ScoresNeverDecrease ==
    [][(pc # "idle" /\ pc' # "idle") =>
          \A i \in 1..Len(buzz_scores) :
             /\ i <= Len(buzz_scores')
             /\ buzz_scores'[i].title = buzz_scores[i].title
             /\ buzz_scores'[i].score >= buzz_scores[i].score]_vars

\* C10 witness: a title that two sources contributed has, after the second,
\* more than the first gave it.
C10_Witness ==
    /\ pc = "letterboxd" /\ domain = "movie"
    /\ \E i \in 1..Len(ret.google) :
          /\ ret.google[i].title \in TitlesOf(ret.reddit)
          /\ Get(buzz_scores, ret.google[i].title) > ret.google[i].score * 4

(***************************************************************************)
(* Properties of the Candidate Filter and of the Title Extractor, checked  *)
(* under SpecText.                                                         *)
(***************************************************************************)
\* the rejection conditions of the Candidate Filter, as the contract lists
\* them
ListedRejection(d, title) ==
    \/ Len(title) < 3
    \/ \E keyword \in (IF d = "movie" THEN MovieExclude ELSE TvExclude) :
          Contains(keyword, Lower(title))
    \/ Len(Split(title)) > (IF d = "movie" THEN 8 ELSE 10)
    \/ Cardinality({i \in 1..Len(Split(title)) :
                       Char(Split(title)[i], 1) \in UpperChars}) < 2
    \/ /\ Split(title) # <<>>
       /\ Lower(Split(title)[1]) \in
             {"how", "what", "where", "why", "when", "is", "are", "do", "does"}
             \cup (IF d = "tv" THEN {"can"} ELSE {})

\* C11: the Candidate Filter answers false exactly when one of the listed
\* conditions holds (length < 3, exclusion keyword, more than 8 / 10 words,
\* fewer than 2 capitalized words, first word in the reject-list) and true
\* otherwise; the movie filter rejects "How I Met Your Mother" and "official
\* trailer discussion" and accepts "Dune Part Two".
C11_FilterRejectsExactlyListed ==
    /\ answer.fn = "_is_likely_movie" =>
          /\ answer.value = ~ListedRejection("movie", raw_text)
          /\ raw_text = "How I Met Your Mother" => answer.value = FALSE
          /\ raw_text = "Dune Part Two" => answer.value = TRUE
          /\ raw_text = "official trailer discussion" => answer.value = FALSE
    /\ answer.fn = "_is_likely_tv_show" =>
          answer.value = ~ListedRejection("tv", raw_text)

\* C11 witness: the TV filter has rejected a title for its first word "can"
\* alone, a title the movie reject-list lets through.
C11_Witness ==
    /\ answer.fn = "_is_likely_tv_show" /\ answer.value = FALSE
    /\ raw_text = "Can You Hear Me"
    /\ ~ListedRejection("movie", raw_text)

\* the title holds one of the keywords
HoldsAny(keywords, title) ==
    \E keyword \in keywords : Contains(keyword, Lower(title))

\* the conditions of the TV filter other than the exclusion keywords let the
\* title through
TvOtherwiseAccepted(title) ==
    /\ Len(title) >= 3
    /\ Len(Split(title)) <= 10
    /\ Cardinality({i \in 1..Len(Split(title)) :
                       Char(Split(title)[i], 1) \in UpperChars}) >= 2
    /\ Lower(Split(title)[1]) \notin
          {"how", "what", "where", "why", "when", "is", "are", "do", "does", "can"}

\* the keywords of the movie list that the claim keeps in the TV list
KeptAsClaimed == MovieExclude \ {"discussion", "review", "question"}

\* C23 as claimed: the TV filter rejects every title that holds a keyword of
\* the movie list other than "discussion", "review" and "question" (or holds
\* "trailer only"), and accepts a title that holds none of them when the
\* other conditions let it through.
C23_AsClaimed ==
    answer.fn = "_is_likely_tv_show" =>
       IF HoldsAny(KeptAsClaimed \cup {"trailer only"}, raw_text)
       THEN answer.value = FALSE
       ELSE TvOtherwiseAccepted(raw_text) => answer.value = TRUE

\* the keywords of the movie list that are not in the TV list
MovieOnly == {"discussion", "official", "trailer", "review", "question"}

\* C23 amended: the TV exclusion-keyword set is the movie set with "trailer
\* only" added and "discussion", "official", "trailer", "review", "question"
\* removed; the TV filter rejects every title that holds one of its
\* keywords, and accepts a title whose only movie-set keywords are among the
\* five removed ones (and that does not hold "trailer only") when the other
\* conditions let it through.
C23_TvExclusionKeywords ==
    /\ TvExclude = (MovieExclude \ MovieOnly) \cup {"trailer only"}
    /\ answer.fn = "_is_likely_tv_show" =>
          IF HoldsAny((MovieExclude \ MovieOnly) \cup {"trailer only"}, raw_text)
          THEN answer.value = FALSE
          ELSE TvOtherwiseAccepted(raw_text) => answer.value = TRUE

\* C23 witness: the TV filter has accepted a title that holds "official" and
\* "trailer", two keywords of the movie list.
C23_Witness ==
    /\ answer.fn = "_is_likely_tv_show" /\ answer.value = TRUE
    /\ raw_text = "The Official Trailer"
    /\ HoldsAny({"official"}, raw_text) /\ HoldsAny({"trailer"}, raw_text)
    /\ ~HoldsAny(MovieExclude \ MovieOnly, raw_text)

\* the match of the first rule of a list that matched: the rule with the
\* least index among those that matched
Winner(rules) ==
    LET matched == {i \in 1..Len(rules) : rules[i] # None}
    IN  IF matched = {} THEN None ELSE rules[SetMin(matched)]

\* the quoted-substring rule of the TV extractor (attribution verbs excluded)
QuotedShow(s) ==
    LET quoted == QuotedTitle(s, 60)
    IN  IF quoted # None /\ \E word \in AttributionWords : Contains(word, Lower(quoted[1]))
        THEN None ELSE quoted

YearRule(s)    == TitleBefore(s, {p \in 1..Len(s) + 1 : YearSuffix(s, p)})
SeasonRule(s)  == TitleBefore(s, {p \in 1..Len(s) + 1 : SeasonSuffix(s, p)})
EpisodeRule(s) == TitleBefore(s, {p \in 1..Len(s) + 1 : EpisodeSuffix(s, p)})
CrossRule(s)   == TitleBefore(s, {p \in 1..Len(s) + 1 : CrossSuffix(s, p)})
TagAfterRule(s) == TitleBefore(s, {p \in 1..Len(s) + 1 : TagSuffix(s, p)})
MovieVerbRule(s) == VerbTitle(s, {"watched", "saw", "loved", "hated"})
ShowVerbRule(s)  == VerbTitle(s, {"watched", "binged", "finished", "loved", "hated"})

\* the rules in the order the claim lists them: quoted, Title (YYYY),
\* episode markers (TV only), bracketed tags, verb-anchored
ListedMovieRules(s) ==
    << QuotedTitle(s, 50), YearRule(s), TagPrefixTitle(s), TagAfterRule(s),
       MovieVerbRule(s) >>

ListedShowRules(s) ==
    << QuotedShow(s), YearRule(s), SeasonRule(s), EpisodeRule(s), CrossRule(s),
       BracketedTitle(s), ShowVerbRule(s) >>

\* C12 as claimed: both extractors return the match of the first rule, in
\* the order quoted, Title (YYYY), episode markers (TV only), bracketed tag,
\* verb-anchored, that matches the text.
C12_AsClaimed ==
    /\ answer.fn = "_extract_movie_from_reddit" =>
          answer.value = Winner(ListedMovieRules(raw_text))
    /\ answer.fn = "_extract_show_from_reddit" =>
          answer.value = Winner(ListedShowRules(raw_text))

\* the rules in the order of the TV extractor: it has no Title (YYYY) rule,
\* and tries [Title] after Title - Season N but before Title SxxEyy and
\* Title NxNN
ShowRules(s) ==
    << QuotedShow(s), SeasonRule(s), BracketedTitle(s), EpisodeRule(s),
       CrossRule(s), ShowVerbRule(s) >>

\* C12 amended: the movie extractor returns the match of the first of
\* quoted, Title (YYYY), [Tag] Title, Title [Tag], verb-anchored that matches;
\* the TV extractor returns the match of the first of quoted, Title - Season
\* N, [Title], Title SxxEyy, Title NxNN, verb-anchored that matches.  When an
\* earlier rule of these orders matches, no later rule decides the result.
C12_FirstRuleInCodeOrder ==
    /\ answer.fn = "_extract_movie_from_reddit" =>
          /\ answer.value = Winner(ListedMovieRules(raw_text))
          /\ \A i \in 1..5 :
                ListedMovieRules(raw_text)[i] # None =>
                   \E j \in 1..i : answer.value = ListedMovieRules(raw_text)[j]
    /\ answer.fn = "_extract_show_from_reddit" =>
          /\ answer.value = Winner(ShowRules(raw_text))
          /\ \A i \in 1..6 :
                ShowRules(raw_text)[i] # None =>
                   \E j \in 1..i : answer.value = ShowRules(raw_text)[j]

\* C12 witness: on a text where both the [Title] rule and the Title SxxEyy
\* rule match, with different titles, the TV extractor has returned the
\* [Title] match.
C12_Witness ==
    /\ answer.fn = "_extract_show_from_reddit"
    /\ BracketedTitle(raw_text) # None /\ EpisodeRule(raw_text) # None
    /\ BracketedTitle(raw_text) # EpisodeRule(raw_text)
    /\ answer.value = BracketedTitle(raw_text)

\* C13: the movie extractor finds "Oppenheimer" in 'I just watched
\* "Oppenheimer" last night' and nothing in "random text with no pattern";
\* the TV extractor finds "The Bear" in "The Bear - Season 3 Review"; an
\* extractor returns none whenever none of its rules matches.
C13_ReferenceCases ==
    /\ answer.fn = "_extract_movie_from_reddit" =>
          /\ raw_text = "I just watched \"Oppenheimer\" last night"
                => answer.value = Some("Oppenheimer")
          /\ raw_text = "random text with no pattern" => answer.value = None
          /\ (\A i \in 1..5 : ListedMovieRules(raw_text)[i] = None)
                => answer.value = None
    /\ answer.fn = "_extract_show_from_reddit" =>
          /\ raw_text = "The Bear - Season 3 Review" => answer.value = Some("The Bear")
          /\ (\A i \in 1..6 : ShowRules(raw_text)[i] = None)
                => answer.value = None

\* C13 witness: the movie extractor has returned none for "random text with
\* no pattern".
C13_Witness ==
    /\ answer.fn = "_extract_movie_from_reddit"
    /\ raw_text = "random text with no pattern"
    /\ answer.value = None

\* the first part of s that stands between two quote characters, starts with
\* an uppercase letter, holds no quote character and has lo..hi characters;
\* with `paired` the closing quote character is the opening one
Enclosed(s, lo, hi, paired) ==
    LET Closes(i) == {j \in (i + 1 + lo)..Min(Len(s), i + 1 + hi) :
                        /\ Char(s, j) \in Quotes
                        /\ paired => Char(s, j) = Char(s, i)
                        /\ \A m \in (i + 1)..(j - 1) : Char(s, m) \notin Quotes}
        opens     == {i \in 1..Len(s) :
                        /\ Char(s, i) \in Quotes
                        /\ At(s, i + 1) \in UpperChars
                        /\ Closes(i) # {}}
    IN  IF opens = {} THEN None
        ELSE LET i == SetMin(opens)
                 j == CHOOSE j \in Closes(i) : TRUE
             IN  Some(Strip(SubSeq(s, i + 1, j - 1)))

\* the enclosed text holds an attribution verb
Attributed(q) == \E word \in AttributionWords : Contains(word, Lower(q[1]))

\* C21 as claimed: both extractors return the text enclosed in a pair of
\* matching quotes when it has 3 to 60 characters and starts with an
\* uppercase letter, except that the TV extractor does not return it from
\* this rule when it holds "said", "says", "told" or "revealed".
C21_AsClaimed ==
    LET q == Enclosed(raw_text, 3, 60, TRUE)
    IN  /\ (answer.fn = "_extract_movie_from_reddit" /\ q # None) =>
              answer.value = q
        /\ (answer.fn = "_extract_show_from_reddit" /\ q # None) =>
              IF Attributed(q) THEN answer.value # q ELSE answer.value = q

\* C21 amended: the quoted rule takes the first text between two quote
\* characters (single or double, not necessarily the same one) that starts
\* with an uppercase letter and has 4 to 51 characters in the movie
\* extractor, 4 to 61 in the TV extractor.  The movie extractor returns it;
\* the TV extractor returns it unless it holds "said", "says", "told" or
\* "revealed", and then does not return it.
C21_QuotedRule ==
    /\ answer.fn = "_extract_movie_from_reddit" =>
          LET q == Enclosed(raw_text, 4, 51, FALSE)
          IN  q # None => answer.value = q
    /\ answer.fn = "_extract_show_from_reddit" =>
          LET q == Enclosed(raw_text, 4, 61, FALSE)
          IN  q # None =>
                 IF Attributed(q) THEN answer.value # q ELSE answer.value = q

\* C21 witness: the movie extractor has returned the quoted "She said yes",
\* a text the quoted rule of the TV extractor refuses.
C21_Witness ==
    /\ answer.fn = "_extract_movie_from_reddit"
    /\ raw_text = "heard \"She said yes\" today"
    /\ answer.value = Some("She said yes")
    /\ Attributed(answer.value)

YearOrSeasonRule(s) ==
    TitleBefore(s, {p \in 1..Len(s) + 1 : YearOrSeasonSuffix(s, p)})

\* the capitalized-word step as the claim reads: all the capitalized tokens
\* of the text joined by spaces, when they are 2 to 8 and the joined text has
\* 8 to hi characters
ClaimedRun(s, hi) ==
    LET words == CapitalizedTokens(s)
    IN  IF 2 <= Len(words) /\ Len(words) <= 8
           /\ 8 <= Len(Join(words)) /\ Len(Join(words)) <= hi
        THEN Some(Join(words)) ELSE None

\* C22 as claimed: the generic extractors return the match of the first of
\* quoted substring, Title (YEAR), run of capitalized words that matches; the
\* run matches only when the text yields 2 to 8 capitalized tokens whose
\* space-joined length is 8 to 80 (8 to 60 for movies), and the extractor
\* returns none when no step matches.
C22_AsClaimed ==
    /\ answer.fn = "_extract_movie_title" =>
          answer.value = Winner(<< QuotedAny(raw_text), YearRule(raw_text),
                                   ClaimedRun(raw_text, 60) >>)
    /\ answer.fn = "_extract_show_title" =>
          answer.value = Winner(<< QuotedAny(raw_text), YearRule(raw_text),
                                   ClaimedRun(raw_text, 80) >>)

\* the first k of the capitalized tokens of the text, joined by spaces
FirstTokens(s, k) ==
    LET words == CapitalizedTokens(s)
    IN  Join([i \in 1..Min(k, Len(words)) |-> words[i]])

\* C22 amended: the generic extractors try a quoted substring first, then
\* Title (YEAR) (the TV one also Title - Season), then the capitalized
\* tokens.  The last step of the movie extractor needs at least 2 tokens and
\* returns the first 6 of them joined when that has 8 to 60 characters; the
\* one of the TV extractor needs 2 to 8 tokens and returns them joined when
\* that has 8 to 80 characters.  Otherwise the extractor returns none.
C22_GenericFallback ==
    /\ answer.fn = "_extract_movie_title" =>
          LET n     == Len(CapitalizedTokens(raw_text))
              title == FirstTokens(raw_text, 6)
          IN  IF QuotedAny(raw_text) # None THEN answer.value = QuotedAny(raw_text)
              ELSE IF YearRule(raw_text) # None THEN answer.value = YearRule(raw_text)
              ELSE IF n >= 2 /\ Len(title) >= 8 /\ Len(title) <= 60
                   THEN answer.value = Some(title)
                   ELSE answer.value = None
    /\ answer.fn = "_extract_show_title" =>
          LET n     == Len(CapitalizedTokens(raw_text))
              title == FirstTokens(raw_text, 8)
          IN  IF QuotedAny(raw_text) # None THEN answer.value = QuotedAny(raw_text)
              ELSE IF YearOrSeasonRule(raw_text) # None
                   THEN answer.value = YearOrSeasonRule(raw_text)
              ELSE IF n >= 2 /\ n <= 8 /\ Len(title) >= 8 /\ Len(title) <= 80
                   THEN answer.value = Some(title)
                   ELSE answer.value = None

\* C22 witness: on a text of nine capitalized tokens and nothing else the
\* generic movie extractor has returned the first six.
C22_Witness ==
    /\ answer.fn = "_extract_movie_title"
    /\ QuotedAny(raw_text) = None /\ YearRule(raw_text) = None
    /\ Len(CapitalizedTokens(raw_text)) = 9
    /\ answer.value = Some("One Two Three Four Five Six")

\* a fetch that failed: the request raised (network, timeout) or the response
\* status is not 200
FailedFetch(resp) ==
    \/ resp.kind = "net_error"
    \/ resp.kind = "http" /\ resp.status # 200

\* the source whose scraper raised, if the running call was left by one
RaisedBy(src) ==
    pc = "raised" /\ invoked # <<>> /\ invoked[Len(invoked)] = src

\* the subreddit pages of a Reddit answer whose fetch did not fail
Answered(r) == Http(200, SelectSeq(r.body, LAMBDA page : ~FailedFetch(page)))

\* what the Reddit scrapers make of the answered pages alone, evaluated once
reddit_movies_answered ==
    [r \in {a \in RedditMovieAnswers : a.kind = "http"} |->
        GetRedditScrape(Answered(r)).value]

reddit_shows_answered ==
    [r \in {a \in RedditTvAnswers : a.kind = "http"} |->
        GetRedditTvScrape(Answered(r)).value]

\* C15: a scraper whose fetch failed (non-200 status, network or timeout
\* error) does not raise into the aggregator and returns nothing for that
\* fetch: a one-page scraper returns the empty result, the Reddit scraper
\* returns what the subreddits that answered give.
C15_FailedFetchGivesEmpty ==
    \A i \in 1..Len(invoked) :
        LET src == invoked[i]
        IN  /\ FailedFetch(env[src]) => ret[src] = <<>> /\ ~RaisedBy(src)
            /\ (src = "reddit" /\ env.reddit.kind = "http"
                    /\ \E k \in 1..Len(env.reddit.body) : FailedFetch(env.reddit.body[k]))
                => /\ ~RaisedBy(src)
                   /\ ret.reddit = IF domain = "movie"
                                   THEN reddit_movies_answered[env.reddit]
                                   ELSE reddit_shows_answered[env.reddit]

\* C15 witness: a movie call returned a non-empty list although the Google
\* request raised, IMDb answered 503, and of the four subreddits one request
\* raised and one answered 429 with submitted in its body.
C15_Witness ==
    /\ pc = "done" /\ domain = "movie" /\ result # <<>>
    /\ env.google = NetError /\ ret.google = <<>>
    /\ env.imdb = Http(503, <<>>) /\ ret.imdb = <<>>
    /\ env.reddit.kind = "http" /\ env.reddit.body[2] = NetError
    /\ env.reddit.body[3].status = 429 /\ env.reddit.body[3].body # <<>>
    /\ ret.reddit # <<>>

\* the order in which analyze_trending_movies / analyze_trending_shows call
\* their scrapers
SourceOrder(d) ==
    IF d = "movie" THEN <<"google", "reddit", "letterboxd", "imdb">>
    ELSE <<"reddit", "imdb", "trakt", "letterboxd", "google">>

\* C16: within one aggregation call the configured sources are invoked once
\* each in the fixed order, and a call that has ended (returned or left by an
\* exception) has invoked every one of them: no failure of a source keeps a
\* later source from being invoked.
C16_EverySourceInvokedOnceInOrder ==
    pc # "idle" =>
        /\ Len(invoked) <= Len(SourceOrder(domain))
        /\ invoked = Prefix(SourceOrder(domain), Len(invoked))
        /\ pc \in {"rank", "done", "raised"} => invoked = SourceOrder(domain)

\* the list sources with the cap k and the fixed weight of the claim
ListSources == {"letterboxd", "imdb", "trakt"}

ListCap(d, src) ==
    IF d = "movie" THEN (IF src = "letterboxd" THEN 8 ELSE 5)
    ELSE (IF src = "trakt" THEN 10 ELSE 8)

ListWeight(d, src) ==
    IF d = "movie" THEN (IF src = "letterboxd" THEN 15 ELSE 12)
    ELSE (IF src = "imdb" THEN 20 ELSE IF src = "trakt" THEN 15 ELSE 12)

\* C17: the step that merges a list source changes the score of a title by
\* the fixed weight of the source times the number of its occurrences among
\* the first k items of the returned list, and nothing else: an item beyond
\* position k changes no score and adds no title.
C17_OnlyFirstKItemsCount ==
    [][(pc \in ListSources /\ pc' # pc) =>
          LET l     == ret'[pc]
              k     == Min(ListCap(domain, pc), Len(l))
              first == {l[i] : i \in 1..k}
          IN  /\ Keys(buzz_scores') = Keys(buzz_scores) \cup first
              /\ \A t \in Keys(buzz_scores') \cup {l[i] : i \in 1..Len(l)} :
                    Get(buzz_scores', t) - Get(buzz_scores, t)
                      = ListWeight(domain, pc)
                          * Cardinality({i \in 1..k : l[i] = t})]_vars

\* C17 witness: the IMDb TV list came back with more than 8 items; "The Bear"
\* stands three times among the first 8 and has 3 x 20 points, and a title
\* that stands only beyond position 8 has no score.
C17_Witness ==
    /\ domain = "tv" /\ pc = "trakt" /\ ret.reddit = <<>>
    /\ Len(ret.imdb) > 8
    /\ Cardinality({i \in 1..8 : ret.imdb[i] = "The Bear"}) = 3
    /\ Get(buzz_scores, "The Bear") = 60
    /\ \E i \in 9..Len(ret.imdb) : ret.imdb[i] \notin Keys(buzz_scores)

\* the answers of a source that are a page fetched with status 200
Pages(answers) == {a \in answers : a.kind = "http" /\ a.status = 200}

\* the titles of selectors 1..k of a page, in order
RECURSIVE Gathered(_, _, _)
Gathered(body, k, how) ==
    IF k = 0 THEN <<>> ELSE Gathered(body, k - 1, how) \o CleanTitles(how, body[k])

\* the number of selectors tried: up to the first one with which more than
\* `limit` titles are gathered
Tried(body, limit, how) ==
    LET enough == {k \in 1..Len(body) : Len(Gathered(body, k, how)) > limit}
    IN  IF enough = {} THEN Len(body) ELSE SetMin(enough)

\* the first selector of a page that yields an element, 0 if none does
FirstYielding(body) ==
    LET hits == {k \in 1..Len(body) : body[k] # <<>>}
    IN  IF hits = {} THEN 0 ELSE SetMin(hits)

ElementsOf(l) == {l[i] : i \in 1..Len(l)}

\* per page answer of a list source: the titles of its first yielding
\* selector, and the titles of all the selectors tried; evaluated once
first_selector_titles ==
    [how \in {"plain", "imdb"} |->
        [r \in Pages(LetterboxdAnswers \cup ImdbAnswers \cup ImdbTvAnswers
                        \cup TraktAnswers) |->
            IF FirstYielding(r.body) = 0 THEN <<>>
            ELSE CleanTitles(how, r.body[FirstYielding(r.body)])]]

gathered_titles ==
    [src \in {"letterboxd", "imdb", "trakt"} |->
        [r \in Pages(LetterboxdAnswers \cup ImdbAnswers \cup ImdbTvAnswers
                        \cup TraktAnswers) |->
            LET how   == IF src = "imdb" THEN "imdb" ELSE "plain"
                limit == IF src = "letterboxd" THEN 10 ELSE IF src = "imdb" THEN 5 ELSE 8
            IN  Gathered(r.body, Tried(r.body, limit, how), how)]]

\* per Google page answer: what the extractor of the domain finds in the
\* items of each selector
google_found ==
    [r \in Pages(GoogleMovieAnswers \cup GoogleTvAnswers) |->
        [k \in 1..Len(r.body) |->
            {ExtractMovieTitle(Strip(r.body[k][j])) : j \in 1..Len(r.body[k])}
            \cup {ExtractShowTitle(Strip(r.body[k][j])) : j \in 1..Len(r.body[k])}]]

\* the scrapers with a list of selector candidates whose page was fetched
SelectorSource(src) ==
    /\ src \in {"google", "letterboxd", "imdb", "trakt"}
    /\ ~(domain = "tv" /\ src = "letterboxd")
    /\ env[src].kind = "http" /\ env[src].status = 200

Occurrences(l, t) == Cardinality({i \in 1..Len(l) : l[i] = t})

\* C19 as claimed: a scraper's output holds only results of the first
\* selector that yielded an element: every title of the output is one of
\* that selector, no more often than it occurs there.
C19_AsClaimed ==
    \A n \in 1..Len(invoked) :
        LET src == invoked[n]
        IN  SelectorSource(src) =>
              IF src = "google"
              THEN \A i \in 1..Len(ret.google) :
                       /\ FirstYielding(env.google.body) # 0
                       /\ Some(ret.google[i].title)
                            \in google_found[env.google][FirstYielding(env.google.body)]
              ELSE LET first == first_selector_titles[IF src = "imdb" THEN "imdb"
                                                      ELSE "plain"][env[src]]
                   IN  \A t \in ElementsOf(ret[src]) :
                           /\ t \in ElementsOf(first)
                           /\ Occurrences(ret[src], t) <= Occurrences(first, t)

\* C19: the Google scrapers use only the first selector that yields an
\* element; the Letterboxd, IMDb and Trakt scrapers append the titles of
\* their selectors in order and stop trying selectors once more than 10
\* (Letterboxd), 5 (IMDb) or 8 (Trakt) titles are gathered, so a later
\* selector contributes whenever the earlier ones gathered no more than that:
\* the IMDb output is the first 10 (TV: 15) gathered titles, the Letterboxd
\* and Trakt output is the set of the gathered titles, at most 15 of them.
C19_FirstForGoogleGatheredForLists ==
    \A n \in 1..Len(invoked) :
        LET src == invoked[n]
        IN  SelectorSource(src) =>
              CASE src = "google" ->
                     \A i \in 1..Len(ret.google) :
                         /\ FirstYielding(env.google.body) # 0
                         /\ Some(ret.google[i].title)
                              \in google_found[env.google][FirstYielding(env.google.body)]
                [] src = "imdb" ->
                     ret.imdb = Prefix(gathered_titles.imdb[env.imdb],
                                       IF domain = "movie" THEN 10 ELSE 15)
                [] OTHER ->
                     LET all == ElementsOf(gathered_titles[src][env[src]])
                     IN  /\ ElementsOf(ret[src]) \subseteq all
                         /\ Len(ret[src]) = Min(15, Cardinality(all))
                         /\ Cardinality(ElementsOf(ret[src])) = Len(ret[src])

\* C19 witness: in one movie call the Google page gave titles of its second
\* selector (the first that yielded) and none of its third, the Letterboxd
\* output holds "Barbie", found by its third selector only, and the IMDb
\* output lists "Dune Part Two" twice, once from each of two selectors.
C19_Witness ==
    /\ pc = "rank" /\ domain = "movie"
    /\ env.google.kind = "http" /\ FirstYielding(env.google.body) = 2
    /\ Some("Past Lives") \in google_found[env.google][3]
    /\ TitlesOf(ret.google) = {"Dune Part Two", "The Bear"}
    /\ env.letterboxd.kind = "http"
    /\ "Barbie" \in ElementsOf(ret.letterboxd)
    /\ "Barbie" \notin ElementsOf(first_selector_titles.plain[env.letterboxd])
    /\ env.imdb.kind = "http" /\ Occurrences(ret.imdb, "Dune Part Two") = 2

\* a page whose parsing was left by an exception
ParseFailed(resp) == resp.kind = "parse_error"

\* the source met a parse exception: on its page, or for Reddit on the page
\* of one of the subreddits
ParseFailedIn(src) ==
    \/ ParseFailed(env[src])
    \/ /\ src = "reddit" /\ env.reddit.kind = "http"
       /\ \E k \in 1..Len(env.reddit.body) : ParseFailed(env.reddit.body[k])

\* the page holding just the elements handled before the exception
CutPage(resp) == IF ParseFailed(resp) THEN Http(200, resp.body) ELSE resp

\* what the Google and Reddit scrapers make of the cut pages, evaluated once
google_cut ==
    [r \in {a \in GoogleMovieAnswers \cup GoogleTvAnswers : ParseFailed(a)} |->
        [movie |-> GetGoogleTrendsScrape(CutPage(r)).value,
         tv    |-> GetGoogleTrendsTv(CutPage(r)).value]]

reddit_cut ==
    [r \in {a \in RedditMovieAnswers \cup RedditTvAnswers : a.kind = "http"} |->
        LET pages == [k \in 1..Len(r.body) |-> CutPage(r.body[k])]
        IN  [movie |-> GetRedditScrape(Http(200, pages)).value,
             tv    |-> GetRedditTvScrape(Http(200, pages)).value]]

\* C20 as claimed: a source whose parsing was left by an exception gives the
\* empty result for the whole source, and the exception does not reach the
\* aggregator.
C20_AsClaimed ==
    \A n \in 1..Len(invoked) :
        ParseFailedIn(invoked[n]) =>
            ret[invoked[n]] = <<>> /\ ~RaisedBy(invoked[n])

\* C20: an exception raised while parsing a source's markup is caught inside
\* the scraper and never reaches the aggregator.  A list scraper
\* (Letterboxd, IMDb, Trakt) then returns the empty list; a Google scraper
\* returns the titles it counted before the exception; a Reddit scraper
\* drops the rest of the failing subreddit only and keeps what the submitted
\* before the exception and the other subreddits gave.
C20_ParseExceptionCaught ==
    \A n \in 1..Len(invoked) :
        LET src == invoked[n]
        IN  ParseFailedIn(src) =>
              /\ ~RaisedBy(src)
              /\ src \in ListSources => ret[src] = <<>>
              /\ src = "google" => ret.google = google_cut[env.google][domain]
              /\ src = "reddit" => ret.reddit = reddit_cut[env.reddit][domain]

\* C20 witness: a movie call returned a non-empty list; the parsing of the
\* Google page and of one subreddit was left by an exception after one item,
\* both results hold the title counted before it, and the IMDb scraper,
\* whose parsing raised too, returned the empty list.
C20_Witness ==
    /\ pc = "done" /\ domain = "movie" /\ result # <<>>
    /\ ParseFailed(env.google) /\ TitlesOf(ret.google) = {"Dune Part Two"}
    /\ env.reddit.kind = "http" /\ ParseFailed(env.reddit.body[1])
    /\ TitlesOf(ret.reddit) = {"Past Lives", "The Bear"}
    /\ ParseFailed(env.imdb) /\ ret.imdb = <<>>

(***************************************************************************)
(* Properties of the pipeline's choice of an item, checked under           *)
(* SpecPipeline.                                                           *)
(***************************************************************************)
\* the stage made call fn for candidate who
Called(fn, who) ==
    \E i \in 1..Len(calls) : calls[i].fn = fn /\ calls[i].who = who

\* candidate who failed: its URL was not resolved, or the fetch of its detail
\* page raised or brought no plot
CandidateFailed(who) ==
    \E i \in 1..Len(calls) :
        /\ calls[i].who = who
        /\ \/ calls[i].fn = "resolve_imdb_title_url" /\ calls[i].out = "none"
           \/ calls[i].fn = "get_movie_details" /\ calls[i].out \in {"raised", ""}

\* C14: when the choice of a stage's item is over (the stage goes on to
\* process what it has, or the run has ended) and the top candidate failed,
\* the next-ranked candidate was tried, the third one too if the second
\* failed, and if every candidate tried failed the authoritative fallback
\* get_trending_movie / get_trending_tv was called.
C14_FallbacksAttempted ==
    (step \in {"process", "error"} /\ CandidateFailed(1)) =>
        /\ Len(trending) >= 2 => Called("resolve_imdb_title_url", 2)
        /\ (Len(trending) >= 3 /\ CandidateFailed(2))
              => Called("resolve_imdb_title_url", 3)
        /\ (\A who \in 1..Min(3, Len(trending)) : CandidateFailed(who))
              => Called("get_trending_movie", 0)

\* the stored record of the kind is a draft of the selected item (same title
\* or same URL) made less than 7 days ago, with a draft id for which
\* draft_exists reports the draft present
StoredDuplicate(kind) ==
    /\ movie # None
    /\ store.file = "dict"
    /\ store.data[kind] # None
    /\ LET rec == store.data[kind][1]
       IN  /\ rec.item.title = movie[1].title \/ rec.item.url = movie[1].url
           /\ Today - rec.timestamp.day < 7
           /\ rec.draft_id # ""
           /\ rec.draft_id \in present

\* C24: when the draft management of a stage starts on a stored duplicate of
\* the selected item, the stage creates no new draft: it makes no call of
\* publish_to_hashnode and leaves the stored record as it is.
C24_DuplicateSuppressed ==
    [][(step = "draft" /\ StoredDuplicate(stage)) =>
          (submitted' = submitted /\ store' = store)]_vars

\* the step appends one call of publish_to_hashnode that returned a draft id
GotDraftId ==
    /\ Len(submitted') = Len(submitted) + 1
    /\ submitted'[Len(submitted')].returned.draft_id \notin {None, Some("")}

\* C25: a step that gets a draft id from publish_to_hashnode saves it: the
\* stored file then holds, under the kind of the stage, the selected item
\* with that draft id (what get_last_draft(kind) returns), and the records
\* of the other kinds of a readable file are as before.  No other step
\* changes the stored file.
C25_SaveReplacesOneKind ==
    [][/\ GotDraftId /\ entry = "pipeline" =>
             /\ store'.file = "dict"
             /\ store'.data[stage] # None
             /\ store'.data[stage][1].item = movie[1]
             /\ Some(store'.data[stage][1].draft_id)
                   = submitted'[Len(submitted')].returned.draft_id
             /\ store.file = "dict" =>
                   \A kind \in Kinds \ {stage} : store'.data[kind] = store.data[kind]
       /\ store' # store => (GotDraftId /\ entry = "pipeline")]_vars

\* C25 witness: the movie stage has replaced the 9 days old movie record by
\* the draft "d7" of the same item, and the tv record of the file is the one
\* it held before.
C25_Witness ==
    /\ stage = "tv" /\ step = "analyze"
    /\ store.data["movie"] = Some(DraftRecord(DuneItem, "d7", Today))
    /\ store.data["tv"] = Some(RecentDune)

\* the calls of publish_to_hashnode made for a kind or an entry point
SubmittedBy(who) == {i \in 1..Len(submitted) : submitted[i].by = who}

\* the list of models the loop starts with
StartingModels ==
    IF gen.configured = <<>> THEN <<RECOMMENDED_MODEL>> ELSE gen.configured

\* the string is the marker of an error
IsReviewError(text) ==
    /\ Len(text) >= Len("[REVIEW ERROR]")
    /\ SubSeq(text, 1, Len("[REVIEW ERROR]")) = "[REVIEW ERROR]"

\* the step makes a completion request that comes to out
Requested(outs) ==
    /\ tried' # tried
    /\ tried'[Len(tried')].out \in outs

\* C26: every call of generate_review / generate_show_review returns, and
\* returns a string; the recommended model is appended to the list at most
\* once, and only at a decommissioned model when the list does not hold it,
\* so that at most one request more than the configured models is made; a
\* model not found makes the loop go on to the next model, and every other
\* error makes the call return the marker of that error at once.
C26_RetryLoopTerminates ==
    /\ <>(gr_pc = "returned")
    /\ [](gr_pc = "returned" => generated # None /\ generated[1] \in STRING)
    /\ [](Len(tried) <= Len(gen.configured) + 1)
    /\ [](gen.groq_client /\ gr_pc # "idle" =>
            \/ models = StartingModels
            \/ /\ models = Append(StartingModels, RECOMMENDED_MODEL)
               /\ \A m \in 1..Len(StartingModels) :
                     StartingModels[m] # RECOMMENDED_MODEL
               /\ \E i \in 1..Len(tried) : tried[i].out = "decommissioned")
    /\ [][/\ (gr_pc = "loop" /\ models' # models) =>
               /\ Requested({"decommissioned"})
               /\ \A m \in 1..Len(models) : models[m] # RECOMMENDED_MODEL
               /\ models' = Append(models, RECOMMENDED_MODEL)
               /\ gr_pc' = "loop"
          /\ Requested({"not_found"}) =>
               /\ gr_pc' = "loop"
               /\ models' = models
               /\ generated' = None
          /\ (Requested({"bad_request", "authentication", "other"})
              \/ (Requested({"decommissioned"}) /\ models' = models)) =>
               /\ gr_pc' = "returned"
               /\ generated' # None
               /\ IsReviewError(generated'[1])]_vars

\* C26 witness: a call has returned after one request more than the models
\* configured: a model not found, a decommissioned one, and the recommended
\* model appended for it
C26_Witness ==
    /\ gr_pc = "returned"
    /\ gen.configured # <<>>
    /\ Len(tried) = Len(gen.configured) + 1
    /\ \E i \in 1..Len(tried) : tried[i].out = "not_found"
    /\ \E i \in 1..Len(tried) : tried[i].out = "decommissioned"
    /\ models = Append(gen.configured, RECOMMENDED_MODEL)
    /\ tried[Len(tried)].model = RECOMMENDED_MODEL
    /\ generated # None

\* C27: once an exception has left the movie stage, the handler of the run
\* has caught it (the run ends without raising) and the TV stage does not
\* run: no TV trend analysis, no TV draft; the run takes no further step.
\* The movie stage itself never changes the stored tv record.
C27_MovieErrorEndsRun ==
    /\ [](outcome["movie"] = "raised" =>
             /\ step = "error"
             /\ stage = "movie"
             /\ outcome["tv"] = "none"
             /\ SubmittedBy("tv") = {})
    /\ [][outcome["movie"] # "raised"]_vars
    /\ [][stage = "movie" => store'.data["tv"] = store.data["tv"]]_vars

\* C27 witness: get_movie_details has raised for the first alternative of
\* the movie stage; the run has ended in its handler, with the stored tv
\* record in place.
C27_Witness ==
    /\ step = "error" /\ stage = "movie" /\ outcome["movie"] = "raised"
    /\ calls # <<>>
    /\ calls[Len(calls)] = Made("get_movie_details", 2, "raised")
    /\ store.data["tv"] = Some(RecentDune)

\* C28: the draft management of a stage starts only on a selected item with
\* a non-empty plot and the generator's review; unless it skips the item as
\* a stored duplicate, it calls publish_to_hashnode once, with the item's
\* title and the review exactly as generated (a "[REVIEW ERROR] ..." text
\* included), and when a draft id comes back the stored record of the kind
\* holds that id.
C28_ReviewSubmittedUninspected ==
    /\ [](step = "draft" =>
             /\ movie # None /\ details # None
             /\ details[1].plot # ""
             /\ review \in Reviews)
    /\ [][(step = "draft" /\ outcome'[stage] # "skipped") =>
             /\ Len(submitted') = Len(submitted) + 1
             /\ LET post == submitted'[Len(submitted')]
                IN  /\ post.by = stage
                    /\ post.title = movie[1].title
                    /\ post.review = review
                    /\ post.returned.draft_id # None =>
                          /\ store'.data[stage] # None
                          /\ Some(store'.data[stage][1].draft_id) = post.returned.draft_id
                          /\ store'.data[stage][1].item = movie[1]]_vars

\* C28 witness: the movie stage has submitted a "[REVIEW ERROR] ..." text as
\* the review of its item, a draft id has come back and the movie record
\* holds it.
C28_Witness ==
    /\ Len(submitted) = 1
    /\ submitted[1].by = "movie"
    /\ submitted[1].review = "[REVIEW ERROR] Groq request failed: no completion returned"
    /\ submitted[1].returned = Returned("draft_created", Some("d7"))
    /\ store.data["movie"] # None
    /\ store.data["movie"][1].draft_id = "d7"
    /\ store.data["movie"][1].item.title = submitted[1].title

\* C29: in a run of run_once_with_cli_approval, publish_to_hashnode has been
\* called only if the operator's answer, trimmed and lowercased, is "y"; as
\* long as it is not (another answer, no answer asked because no trending
\* movie was found), the run has called publish_to_hashnode never and has
\* written no video prompt; it ends so.
C29_PublishOnlyOnYes ==
    /\ (entry = "cli" /\ submitted # <<>>) =>
          /\ Lower(Strip(decision)) = "y"
          /\ \A i \in 1..Len(submitted) : submitted[i].by = "cli"
    /\ (entry = "cli" /\ Lower(Strip(decision)) # "y") =>
          /\ submitted = <<>>
          /\ prompts = <<>>
    /\ (entry = "cli" /\ step = "approval") => submitted = <<>>
    /\ (entry = "cli" /\ calls # <<>> /\ calls[1].out = "none") =>
          /\ step = "returned"
          /\ submitted = <<>> /\ prompts = <<>>

\* C29 witness: the operator typed "  Y"; the run has called
\* publish_to_hashnode with publish=True and has written the video prompt.
C29_Witness ==
    /\ entry = "cli" /\ step = "returned"
    /\ decision = "  Y"
    /\ Len(submitted) = 1 /\ submitted[1].publish
    /\ Len(prompts) = 1

\* the calls of publish_to_hashnode made by the automated entry points
Automated == {i \in 1..Len(submitted) : submitted[i].by \in {"movie", "tv", "web"}}

\* C30: every call of publish_to_hashnode by run_movie_review_pipeline
\* (movie and TV stage) and by run_once_for_web_approval passes
\* publish=False: it posts no publishDraft mutation and returns no success;
\* each stage and the web run make at most one call, so at most one draft
\* per kind is created.
C30_AutomatedNeverPublish ==
    /\ \A i \in Automated :
          /\ ~submitted[i].publish
          /\ ~submitted[i].publishDraft
          /\ submitted[i].returned.status \in {"skipped", "error", "draft_created"}
    /\ \A who \in {"movie", "tv", "web"} : Cardinality(SubmittedBy(who)) <= 1
    /\ entry \in {"pipeline", "web"} => Automated = 1..Len(submitted)

\* C30 witness: a run of the pipeline has created one draft in the movie
\* stage and one in the TV stage, both with publish=False.
C30_Witness ==
    /\ entry = "pipeline" /\ step = "completed"
    /\ Len(submitted) = 2
    /\ submitted[1].by = "movie" /\ submitted[2].by = "tv"
    /\ submitted[1].returned.status = "draft_created"
    /\ submitted[2].returned.status = "draft_created"
    /\ ~submitted[1].publish /\ ~submitted[2].publish

(***************************************************************************)
(* Properties of publish_to_hashnode, checked under SpecHashnode.          *)
(***************************************************************************)
\* the answer is a 200 response that carries an id
CarriesId(resp) == resp.kind = "reply" /\ resp.status = 200 /\ resp.id # ""

\* the createDraft attempts of the call that got an answer carrying a draft id
Yielding == {i \in 1..Len(sent) : CarriesId(sent[i].resp)}

\* C18: a call with publish=False sends no publishDraft mutation; its
\* requests are createDraft mutations with the candidate field names in
\* their order; none follows an answer that carries a draft id; once it has
\* returned, it returned draft_created with the id of that answer if one
\* attempt yielded an id, and an error status otherwise.  A call without
\* credentials returns skipped and has sent no request.
C18_DraftOnlyNeverPublishes ==
    /\ (hn_pc # "idle" /\ credentials /\ ~publish) =>
          /\ \A i \in 1..Len(sent) :
                /\ sent[i].mutation = "createDraft"
                /\ i <= Len(candidate_fields)
                /\ sent[i].field = candidate_fields[i]
                /\ i < Len(sent) => ~CarriesId(sent[i].resp)
          /\ hn_pc = "returned" =>
                IF Yielding # {}
                THEN returned = Returned("draft_created",
                                         Some(sent[Len(sent)].resp.id))
                ELSE returned.status = "error"
    /\ (hn_pc # "idle" /\ ~credentials) =>
          /\ hn_pc = "returned"
          /\ returned.status = "skipped"
          /\ sent = <<>>

\* C18 witness: a draft-only call returned draft_created with the id "d1" of
\* its third attempt, after a 500 answer that held an id and a 200 answer
\* without one.
C18_Witness ==
    /\ hn_pc = "returned" /\ credentials /\ ~publish
    /\ Len(sent) = 3
    /\ sent[1].resp = Reply(500, "d9")
    /\ sent[2].resp = Reply(200, "")
    /\ sent[3].field = "content"
    /\ returned = Returned("draft_created", Some("d1"))
====
